---- MODULE Spec2Model ----
(***************************************************************************)
(* A model of the TFTP server of kcexn/tftpd.                              *)
(*                                                                         *)
(*   - the I/O driver of src/src/tftp_server.cpp: the demultiplexer        *)
(*     server::operator(), the handlers rrq, wrq, ack, data, the timers    *)
(*     armed by send_next and get_next, error and cleanup;                 *)
(*   - the protocol engine of src/src/tftp.cpp: handle_request,            *)
(*     handle_ack, handle_data and its send_next;                          *)
(*   - the staging of src/src/filesystem.cpp.                              *)
(*                                                                         *)
(* Datagrams, buffers and files are sequences of bytes (0..255).  A path   *)
(* is a sequence of bytes too.  The block size DATALEN is scaled down from *)
(* 512 so that block boundaries are reached with short files.              *)
(***************************************************************************)
EXTENDS Integers, Sequences, FiniteSets, TLC

VARIABLES
  sessions,   \* server::sessions_: iterator |-> [key, state fields]
  timers,     \* ctx.timers: timer id |-> [siter, socket, kind, retries]
  fs,         \* the filesystem: path |-> content, for the files that exist
  count,      \* filesystem::count(), the temporary-name counter
  nsock,      \* number of sockets ctx.poller.emplace has created
  open,       \* sockets with a pending reader
  sent,       \* per socket, the datagrams handed to io::sendmsg, in order
  rcvd,       \* the datagram the server handled last
  eng,        \* a session driven through the engine of tftp.cpp, and its result
  proc        \* the process: its command line, where main is, its exit status, its output

vars == <<sessions, timers, fs, count, nsock, open, sent, rcvd, eng, proc>>

----------------------------------------------------------------------------
(* Bounds of the model.                                                    *)

\* The payload size of a full DATA block (messages::DATALEN is 512).
DATALEN == 2
\* Longest source file.
MaxFileLen == 3
\* Sockets ctx.poller.emplace may create, hence sessions ever created.
MaxSockets == 2
\* Sessions created where a specification follows single transfers.
MaxTransfers == 1
\* Datagrams sent from a socket after which it is given no more DATA.
MaxSent == 5
\* Longest source text read in netascii mode.
MaxTextLen == 3
\* Full blocks of the source read while round trips are sampled.
RttBlocks == 15

----------------------------------------------------------------------------
(* Program constants.                                                      *)

RRQ == 1
WRQ == 2
DATA == 3
ACK == 4
ERROR == 5

NETASCII == 1
OCTET == 2
MAIL == 3

NOT_DEFINED == 0
FILE_NOT_FOUND == 1
ACCESS_VIOLATION == 2
DISK_FULL == 3
ILLEGAL_OPERATION == 4
UNKNOWN_TID == 5
FILE_ALREADY_EXISTS == 6
NO_SUCH_USER == 7
TIMED_OUT == 8

\* sizeof(messages::data): opcode and block number.
HDRLEN == 4
DATAMSG_MAXLEN == HDRLEN + DATALEN
MAX_RETRIES == 5
TIMEOUT_MIN == 2
TIMEOUT_MAX == 200
INVALID_TIMER == -1
INVALID_SOCKET == -1
\* The socket the server listens on.
LISTEN == 0
\* std::uint16_t arithmetic.
U16 == 65536

NUL == 0
LF == 10
CR == 13

----------------------------------------------------------------------------
(* Bytes and byte order.                                                   *)

Min(a, b) == IF a < b THEN a ELSE b
Max(a, b) == IF a > b THEN a ELSE b

\* htons(x) as the two bytes put on the wire.
htons(x) == <<(x \div 256) % 256, x % 256>>
\* ntohs of the two bytes at offset off (0-based) of buf.
ntohs(buf, off) == buf[off + 1] * 256 + buf[off + 2]

Drop(s, n) == SubSeq(s, n + 1, Len(s))
Take(s, n) == SubSeq(s, 1, Min(n, Len(s)))

RECURSIVE Concat(_)
Concat(ss) == IF ss = <<>> THEN <<>> ELSE Head(ss) \o Concat(Tail(ss))

\* All sequences over S of length 0..n.
RECURSIVE SeqsUpTo(_, _)
SeqsUpTo(S, n) ==
  IF n = 0 THEN {<<>>}
  ELSE LET shorter == SeqsUpTo(S, n - 1)
       IN shorter \cup {Append(s, x) : s \in {t \in shorter : Len(t) = n - 1}, x \in S}

\* std::tolower of a byte.
tolower(c) == IF c >= 65 /\ c <= 90 THEN c + 32 ELSE c

str_netascii == <<110, 101, 116, 97, 115, 99, 105, 105>>
str_octet == <<111, 99, 116, 101, 116>>
str_mail == <<109, 97, 105, 108>>

----------------------------------------------------------------------------
(* Error packets (tftp_protocol.hpp).                                      *)

\* errors::msg: opcode ERROR, the code, the message and its terminator.
errors_msg(error, str) == htons(ERROR) \o htons(error) \o str \o <<NUL>>

not_implemented ==
  errors_msg(NOT_DEFINED, <<78,111,116,32,105,109,112,108,101,109,101,110,116,101,100,46>>)
timed_out == errors_msg(NOT_DEFINED, <<84,105,109,101,100,32,79,117,116>>)
access_violation ==
  errors_msg(ACCESS_VIOLATION, <<65,99,99,101,115,115,32,118,105,111,108,97,116,105,111,110,46>>)
file_not_found ==
  errors_msg(FILE_NOT_FOUND, <<70,105,108,101,32,110,111,116,32,102,111,117,110,100,46>>)
disk_full ==
  errors_msg(DISK_FULL, <<78,111,32,115,112,97,99,101,32,97,118,97,105,108,97,98,108,101,46>>)
unknown_tid == errors_msg(UNKNOWN_TID, <<85,110,107,110,111,119,110,32,84,73,68,46>>)
no_such_user == errors_msg(NO_SUCH_USER, <<78,111,32,115,117,99,104,32,117,115,101,114,46>>)
illegal_operation ==
  errors_msg(ILLEGAL_OPERATION, <<73,108,108,101,103,97,108,32,111,112,101,114,97,116,105,111,110,46>>)

----------------------------------------------------------------------------
(* The filesystem.                                                         *)

\* Paths of the model.  "f" and "g" are ordinary names, "x" may not be
\* opened (permissions), the parent directory of "n" does not exist.
path_f == <<102>>
path_g == <<103>>
path_x == <<120>>
path_n == <<110>>
NoAccess == {path_x}
NoParent == {path_n}
\* Users with a directory under filesystem::mail_directory().
user_u == <<117>>
MailUsers == {user_u}

\* mail_directory() / user / timestamp; no file name holds the byte 1.
MailPath(user, stamp) == <<1>> \o user \o <<1, stamp>>
IsMailPath(p) == Len(p) >= 3 /\ p[1] = 1
MailUser(p) == SubSeq(p, 2, Len(p) - 2)
ParentMissing(p) ==
  IF IsMailPath(p) THEN MailUser(p) \notin MailUsers ELSE p \in NoParent

Exists(f, p) == p \in DOMAIN f
WriteFile(f, p, c) == [q \in DOMAIN f \cup {p} |-> IF q = p THEN c ELSE f[q]]
RemoveFile(f, p) == [q \in DOMAIN f \ {p} |-> f[q]]

\* std::format("{:05d}", n): the decimal digits of n, padded with zeros to
\* five; n is a uint16_t and has no more.
format_05d(n) == [k \in 1..5 |-> 48 + ((n \div (10 ^ (5 - k))) % 10)]

\* tmpname: <tempdir>/tftp.<count as five digits>, and count()++ on 16
\* bits.  The byte 0 stands for <tempdir>/tftp.: no other file name holds
\* it.
tmpname(c) == [path |-> <<0>> \o format_05d(c), count |-> (c + 1) % U16]

\* touch: fopen(file, "a") creates the file when it is missing.
touch(f, file) ==
  IF ParentMissing(file) THEN [err |-> "ENOENT", fs |-> f]
  ELSE IF file \in NoAccess THEN [err |-> "EACCES", fs |-> f]
  ELSE [err |-> "", fs |-> IF Exists(f, file) THEN f ELSE WriteFile(f, file, <<>>)]

\* A std::shared_ptr<std::fstream>: null, or a stream on a path.
NullFile == [null |-> TRUE, path |-> <<>>, isopen |-> FALSE, pos |-> 0]
OpenFile(p) == [null |-> FALSE, path |-> p, isopen |-> TRUE, pos |-> 0]

\* open_write: touch the target, then open a fresh temporary, truncated.
\* tmpfails: the temporary cannot be opened.
open_write(f, c, file, tmp, tmpfails) ==
  LET t == touch(f, file)
      n == tmpname(c)
  IN IF t.err # ""
     THEN [file |-> NullFile, tmp |-> tmp, err |-> t.err, fs |-> t.fs, count |-> c]
     ELSE IF tmpfails
     THEN [file |-> NullFile, tmp |-> n.path, err |-> "EACCES", fs |-> t.fs,
           count |-> n.count]
     ELSE [file |-> OpenFile(n.path), tmp |-> n.path, err |-> "",
           fs |-> WriteFile(t.fs, n.path, <<>>), count |-> n.count]

\* stage_for_read: copy the source to a fresh temporary and open the copy.
stage_for_read(f, c, file, tmp, tmpfails) ==
  LET n == tmpname(c)
  IN IF ~Exists(f, file) \/ ParentMissing(file)
     THEN [file |-> NullFile, tmp |-> tmp, err |-> "ENOENT", fs |-> f, count |-> c]
     ELSE IF file \in NoAccess \/ tmpfails
     THEN [file |-> NullFile, tmp |-> tmp, err |-> "EACCES", fs |-> f, count |-> c]
     ELSE [file |-> OpenFile(n.path), tmp |-> n.path, err |-> "",
           fs |-> WriteFile(f, n.path, f[file]), count |-> n.count]

\* filesystem::tmpfile_from(target, openmode, tmp, err).
tmpfile_from(f, c, target, writing, tmp, tmpfails) ==
  IF writing THEN open_write(f, c, target, tmp, tmpfails)
  ELSE stage_for_read(f, c, target, tmp, tmpfails)

----------------------------------------------------------------------------
(* Sessions and the server's state.                                        *)

\* tftp::session, value-initialised, under the key of its peer.
session(peer) ==
  [key |-> peer, target |-> <<>>, tmp |-> <<>>, buffer |-> <<>>,
   file |-> NullFile, avg_rtt |-> TIMEOUT_MAX, timer |-> INVALID_TIMER,
   socket |-> INVALID_SOCKET, block_num |-> 0, opc |-> 0, mode |-> 0]

\* The state the handlers work on, as one record.
World ==
  [sessions |-> sessions, timers |-> timers, fs |-> fs, count |-> count,
   nsock |-> nsock, open |-> open, sent |-> sent]

\* The smallest natural number outside S: a fresh iterator or timer id.
Fresh(S) == CHOOSE n \in 0..Cardinality(S) : n \notin S /\ \A m \in 0..(n - 1) : m \in S

\* ctx.timers.remove / ctx.timers.add.  A timer: the session and socket
\* its callback captures, the callback (kind), the callback's retries and
\* the interval it was armed with, in milliseconds.
timers_remove(T, id) == [t \in DOMAIN T \ {id} |-> T[t]]
timers_add(T, rec) ==
  LET id == Fresh(DOMAIN T) IN [t \in DOMAIN T \cup {id} |-> IF t = id THEN rec ELSE T[t]]

\* io::sendmsg(socket, {address, buffers}).
sendmsg(W, socket, address, buffers) ==
  [W EXCEPT !.sent[socket] = Append(@, [to |-> address, bytes |-> buffers])]

\* reader(ctx, socket, rctx): wait for the next datagram on the socket.
reader(W, socket) == [W EXCEPT !.open = @ \cup {socket}]

\* A read on a stream in a failed state: no byte is extracted.
read_nothing(content, pos, n) == <<>>

\* std::istream::readsome / read on content from position pos: at most n
\* bytes, fewer at the end of the file.
readsome(content, pos, n) ==
  SubSeq(content, pos + 1, pos + Min(n, Len(content) - pos))

----------------------------------------------------------------------------
(* tftp_server.cpp: helpers.                                               *)

\* to_view: the C string at the head of str, empty when no byte of str
\* is zero.
strnlen(str) ==
  IF \E i \in 1..Len(str) : str[i] = NUL
  THEN (CHOOSE i \in 1..Len(str) : str[i] = NUL /\ \A j \in 1..(i - 1) : str[j] # NUL) - 1
  ELSE Len(str)
to_view(str) == IF strnlen(str) = Len(str) THEN <<>> ELSE Take(str, strnlen(str))

\* A comparison of the first bytes of mode only, as many as lit has.
to_mode_prefix(mode, lit) ==
  /\ Len(mode) >= Len(lit)
  /\ \A i \in 1..Len(lit) : tolower(mode[i]) = lit[i]

\* strncmp(buf, lit, 9) = 0 for the 9-byte zero-filled buf holding the
\* lowercased first 9 bytes of mode.
to_mode_eq(mode, lit) ==
  LET buf == [i \in 1..9 |-> IF i <= Len(mode) THEN tolower(mode[i]) ELSE NUL]
      ref == [i \in 1..9 |-> IF i <= Len(lit) THEN lit[i] ELSE NUL]
  IN buf = ref
to_mode(mode) ==
  IF to_mode_eq(mode, str_netascii) THEN NETASCII
  ELSE IF to_mode_eq(mode, str_octet) THEN OCTET
  ELSE IF to_mode_eq(mode, str_mail) THEN MAIL
  ELSE 0

\* parse_request: [ok, opc, filename, mode]; msg holds at least the opcode.
NoRequest == [ok |-> FALSE, opc |-> 0, filename |-> <<>>, mode |-> 0]
parse_request(buf) ==
  LET opc == ntohs(buf, 0)
      rest == Drop(buf, 2)
      filepath == to_view(rest)
      rest2 == Drop(rest, Len(filepath) + 1)
      mode == to_view(rest2)
  IN IF opc # RRQ /\ opc # WRQ THEN NoRequest
     ELSE IF filepath = <<>> THEN NoRequest
     ELSE IF mode = <<>> THEN NoRequest
     ELSE IF to_mode(mode) = 0 THEN NoRequest
     ELSE [ok |-> TRUE, opc |-> opc, filename |-> filepath, mode |-> to_mode(mode)]

\* The weighted average, not clamped.
exp_weighted_average(curr, prev) == (prev * 3) \div 4 + curr \div 4

\* clamped_exp_weighted_average, in milliseconds.
clamped_exp_weighted_average(curr, prev) ==
  LET avg == (prev * 3) \div 4 + curr \div 4
  IN Max(Min(avg, TIMEOUT_MAX), TIMEOUT_MIN)

\* An append that transcodes in no mode.
insert_raw(buffer, buf, mode) == buffer \o buf

\* insert_data: append buf to buffer, transcoding in netascii mode.
RECURSIVE insert_data(_, _, _)
insert_data(buffer, buf, mode) ==
  IF buf = <<>> THEN buffer
  ELSE LET get == Head(buf)
       IN IF mode = NETASCII /\ get = NUL
          THEN insert_data(buffer, Tail(buf), mode)
          ELSE LET b1 == IF mode = NETASCII /\ get = LF
                         THEN IF Len(buffer) > HDRLEN /\ buffer[Len(buffer)] = NUL
                              THEN SubSeq(buffer, 1, Len(buffer) - 1)
                              ELSE Append(buffer, CR)
                         ELSE buffer
                   b2 == Append(b1, get)
                   b3 == IF mode = NETASCII /\ get = CR THEN Append(b2, NUL) ELSE b2
               IN insert_data(b3, Tail(buf), mode)

----------------------------------------------------------------------------
(* tftp_server.cpp: the driver.  Each handler maps the state W to the      *)
(* state it leaves.  env holds what the handler reads from outside the     *)
(* model's state: the time elapsed since start_time (sample), the bytes    *)
(* that follow the datagram in the read buffer (junk), whether a           *)
(* temporary can be opened (tmpfails), and the wall clock (stamp).         *)

\* The bytes a handler reads at and after the datagram's start.
ReadBuffer(buf, env) == buf \o env.junk

\* A cleanup that deletes the file the request named, not the temporary.
cleanup_removes_target(W, socket, siter) ==
  LET s == W.sessions[siter]
  IN [W EXCEPT
        !.timers = timers_remove(@, s.timer),
        !.fs = IF s.target # <<>> /\ Exists(@, s.target) THEN RemoveFile(@, s.target) ELSE @,
        !.open = @ \ {socket},
        !.sessions = [i \in DOMAIN @ \ {siter} |-> @[i]]]

\* A cleanup that leaves the temporary where it is.
cleanup_keeps_tmp(W, socket, siter) ==
  LET s == W.sessions[siter]
  IN [W EXCEPT
        !.timers = timers_remove(@, s.timer),
        !.open = @ \ {socket},
        !.sessions = [i \in DOMAIN @ \ {siter} |-> @[i]]]

\* server::cleanup.
cleanup(W, socket, siter) ==
  LET s == W.sessions[siter]
  IN [W EXCEPT
        !.timers = timers_remove(@, s.timer),
        !.fs = IF s.tmp # <<>> /\ Exists(@, s.tmp) THEN RemoveFile(@, s.tmp) ELSE @,
        !.open = @ \ {socket},
        !.sessions = [i \in DOMAIN @ \ {siter} |-> @[i]]]

\* A server that has no packet for any code.
error_silent(error) == <<>>

\* The packet server::error sends for a code, <<>> when it sends none.
error_buffers(error) ==
  CASE error = NOT_DEFINED -> not_implemented
    [] error = ACCESS_VIOLATION -> access_violation
    [] error = FILE_NOT_FOUND -> file_not_found
    [] error = DISK_FULL -> disk_full
    [] error = NO_SUCH_USER -> no_such_user
    [] error = UNKNOWN_TID -> unknown_tid
    [] error = ILLEGAL_OPERATION -> illegal_operation
    [] error = TIMED_OUT -> timed_out
    [] OTHER -> <<>>

\* An error that sends its packet and leaves the session in the table.
error_keeps_session(W, socket, siter, err) ==
  IF error_buffers(err) # <<>>
  THEN sendmsg(W, socket, W.sessions[siter].key, error_buffers(err))
  ELSE W

\* server::error.
error(W, socket, siter, err) ==
  LET buffers == error_buffers(err)
      W1 == IF buffers # <<>>
            THEN sendmsg(W, socket, W.sessions[siter].key, buffers)
            ELSE W
  IN cleanup(W1, socket, siter)

\* server::send: the current buffer, cut to one DATA message.
send(W, socket, siter) ==
  LET s == W.sessions[siter]
  IN sendmsg(W, socket, s.key, Take(s.buffer, DATAMSG_MAXLEN))

\* The retransmission callback's test of its retry count.
retries_exhausted(retries) == retries >= MAX_RETRIES

\* The bytes send_next leaves in the buffer before reading the file: the
\* header with the new block number, then the carry.
next_header(buffer, block_num) ==
  LET resized == IF Len(buffer) < HDRLEN
                 THEN buffer \o [i \in 1..(HDRLEN - Len(buffer)) |-> 0]
                 ELSE buffer
      carry == IF Len(resized) > DATAMSG_MAXLEN THEN Drop(resized, DATAMSG_MAXLEN) ELSE <<>>
  IN htons(DATA) \o htons(block_num) \o carry

\* server::send_next.
send_next(W, socket, siter, env) ==
  LET s == W.sessions[siter]
      block_num == (s.block_num + 1) % U16
      head == next_header(s.buffer, block_num)
      chunk == readsome(W.fs[s.file.path], s.file.pos, DATALEN)
      buffer == insert_data(head, chunk, s.mode)
      avg_rtt == clamped_exp_weighted_average(env.sample, s.avg_rtt)
      T == timers_remove(W.timers, s.timer)
      id == Fresh(DOMAIN T)
      W1 == [W EXCEPT
               !.sessions[siter].block_num = block_num,
               !.sessions[siter].buffer = buffer,
               !.sessions[siter].file.pos = @ + Len(chunk),
               !.sessions[siter].avg_rtt = avg_rtt,
               !.sessions[siter].timer = id,
               !.timers = timers_add(T, [siter |-> siter, socket |-> socket,
                                         kind |-> "data", retries |-> 0,
                                         interval |-> 2 * avg_rtt])]
  IN send(W1, socket, siter)

\* An acknowledgement that sends nothing.
ack_block_silent(W, socket, siter) == W

\* server::ack(ctx, socket, siter): send the ACK of the current block.
ack_block(W, socket, siter) ==
  LET s == W.sessions[siter]
      buffer == htons(ACK) \o htons(s.block_num)
  IN sendmsg([W EXCEPT !.sessions[siter].buffer = buffer], socket, s.key, buffer)

\* A get_next that arms the new timer and leaves the previous one armed.
get_next_keeps_timer(W, socket, siter, env) ==
  LET s == W.sessions[siter]
      id == Fresh(DOMAIN W.timers)
      W1 == ack_block(W, socket, siter)
      avg_rtt == clamped_exp_weighted_average(env.sample, s.avg_rtt)
  IN [W1 EXCEPT
        !.sessions[siter].avg_rtt = avg_rtt,
        !.sessions[siter].timer = id,
        !.timers = timers_add(@, [siter |-> siter, socket |-> socket,
                                  kind |-> "ack", retries |-> 0,
                                  interval |-> 5 * avg_rtt])]

\* server::get_next.
get_next(W, socket, siter, env) ==
  LET s == W.sessions[siter]
      T == timers_remove(W.timers, s.timer)
      id == Fresh(DOMAIN T)
      W1 == ack_block(W, socket, siter)
      avg_rtt == clamped_exp_weighted_average(env.sample, s.avg_rtt)
  IN [W1 EXCEPT
        !.sessions[siter].avg_rtt = avg_rtt,
        !.sessions[siter].timer = id,
        !.timers = timers_add(T, [siter |-> siter, socket |-> socket,
                                  kind |-> "ack", retries |-> 0,
                                  interval |-> 5 * avg_rtt])]

\* A handler that ignores every ACK.
ack_ignored(W, socket, msg, siter, env) == reader(W, socket)

\* A test that takes every ACK for the current one.
ack_any(msg_block, block_num) == TRUE

\* server::ack(ctx, socket, rctx, msg, siter): an ACK datagram.
ack_matches(msg_block, block_num) == msg_block = block_num
ack(W, socket, msg, siter, env) ==
  LET s == W.sessions[siter]
  IN IF s.opc = RRQ
     THEN IF Len(s.buffer) < DATAMSG_MAXLEN
          THEN cleanup(W, socket, siter)
          ELSE IF ack_matches(ntohs(ReadBuffer(msg, env), 2), s.block_num)
               THEN reader(send_next(W, socket, siter, env), socket)
               ELSE reader(W, socket)
     ELSE error(W, socket, siter, UNKNOWN_TID)

\* A session whose operation is taken never to be set.
operation_unset(opc) == FALSE

\* server::rrq, server::wrq: the session already runs an operation.
operation_set(opc) == opc # 0

\* server::rrq.
rrq(W, socket, buf, siter, env) ==
  LET s == W.sessions[siter]
      request == parse_request(buf)
      staged == tmpfile_from(W.fs, W.count, request.filename, FALSE, s.tmp, env.tmpfails)
      W1 == [W EXCEPT
               !.sessions[siter].opc = request.opc,
               !.sessions[siter].target = request.filename,
               !.sessions[siter].mode = request.mode]
      W2 == [W1 EXCEPT
               !.sessions[siter].file = staged.file,
               !.sessions[siter].tmp = staged.tmp,
               !.fs = staged.fs,
               !.count = staged.count]
      W3 == [W2 EXCEPT !.sessions[siter].socket = socket]
  IN IF operation_set(s.opc) THEN reader(W, socket)
     ELSE IF ~request.ok THEN error(W, socket, siter, NOT_DEFINED)
     ELSE IF request.mode = MAIL THEN error(W1, socket, siter, ILLEGAL_OPERATION)
     ELSE IF staged.file.null
          THEN IF staged.err = "ENOENT"
               THEN error(W2, socket, siter, FILE_NOT_FOUND)
               ELSE error(W2, socket, siter, ACCESS_VIOLATION)
     ELSE reader(send_next(W3, socket, siter, env), socket)

\* server::wrq.
wrq(W, socket, buf, siter, env) ==
  LET s == W.sessions[siter]
      request == parse_request(buf)
      target == IF request.mode = MAIL
                THEN MailPath(request.filename, env.stamp)
                ELSE request.filename
      staged == tmpfile_from(W.fs, W.count, target, TRUE, s.tmp, env.tmpfails)
      W1 == [W EXCEPT
               !.sessions[siter].opc = request.opc,
               !.sessions[siter].target = target,
               !.sessions[siter].mode = request.mode]
      W2 == [W1 EXCEPT
               !.sessions[siter].file = staged.file,
               !.sessions[siter].tmp = staged.tmp,
               !.fs = staged.fs,
               !.count = staged.count]
      W3 == [W2 EXCEPT !.sessions[siter].socket = socket]
  IN IF operation_set(s.opc) THEN reader(W, socket)
     ELSE IF ~request.ok THEN error(W, socket, siter, NOT_DEFINED)
     ELSE IF staged.file.null
          THEN IF request.mode = MAIL /\ staged.err = "ENOENT"
               THEN error(W2, socket, siter, NO_SUCH_USER)
               ELSE error(W2, socket, siter, ACCESS_VIOLATION)
     ELSE reader(get_next(W3, socket, siter, env), socket)

\* A test that takes every DATA for the next one.
data_is_any(msg_block, block_num) == TRUE

\* server::data compares the block of the datagram with block_num + 1,
\* computed as an int.
data_is_next(msg_block, block_num) == msg_block = block_num + 1
\* A write of no byte.
data_written_none(buf, env) == <<>>
\* server::data writes buf.size() bytes from the end of the header.
data_written(buf, env) == SubSeq(ReadBuffer(buf, env), HDRLEN + 1, HDRLEN + Len(buf))
\* server::data takes the transfer as complete on a short datagram.
data_is_last(buf) == Len(buf) < DATAMSG_MAXLEN

\* server::data.
data(W, socket, buf, siter, env) ==
  LET s == W.sessions[siter]
      msg_block == ntohs(ReadBuffer(buf, env), 2)
      W1 == IF msg_block = s.block_num THEN ack_block(W, socket, siter) ELSE W
      W2 == [W1 EXCEPT !.sessions[siter].block_num = (@ + 1) % U16]
      written == data_written(buf, env)
      \* file->write: the stream writes through to the file at tmp.
      W3 == [W2 EXCEPT
               !.fs = IF Exists(@, s.tmp) THEN WriteFile(@, s.tmp, @[s.tmp] \o written) ELSE @,
               !.sessions[siter].file.pos = @ + Len(written)]
      \* file->close() and std::filesystem::rename(tmp, target).
      W4 == [W3 EXCEPT !.sessions[siter].file.isopen = FALSE]
      W5 == [W4 EXCEPT !.fs = RemoveFile(WriteFile(@, s.target, @[s.tmp]), s.tmp)]
  IN IF s.opc = WRQ
     THEN IF ~data_is_next(msg_block, s.block_num) THEN reader(W1, socket)
          \* file->write on a closed stream fails, unless it is given no byte.
          ELSE IF ~s.file.isopen /\ Len(written) > 0 THEN error(W2, socket, siter, DISK_FULL)
          ELSE IF data_is_last(buf)
               THEN IF ~Exists(W3.fs, s.tmp)
                    THEN error(W4, socket, siter, ACCESS_VIOLATION)
                    ELSE reader(get_next(W5, socket, siter, env), socket)
               ELSE reader(get_next(W3, socket, siter, env), socket)
     ELSE error(W, socket, siter, UNKNOWN_TID)

\* A service that reads the socket again whatever the opcode.
service_ignores(W, socket, buf, siter, env) == reader(W, socket)

\* server::service.
service(W, socket, buf, siter, env) ==
  LET opcode == ntohs(ReadBuffer(buf, env), 0)
  IN CASE opcode = RRQ -> rrq(W, socket, buf, siter, env)
       [] opcode = ACK -> ack(W, socket, buf, siter, env)
       [] opcode = WRQ -> wrq(W, socket, buf, siter, env)
       [] opcode = DATA -> data(W, socket, buf, siter, env)
       [] OTHER -> error(W, socket, siter, ILLEGAL_OPERATION)

\* A lookup by socket alone, whoever the peer.
MatchingSocket(W, address, socket) ==
  {i \in DOMAIN W.sessions : W.sessions[i].socket = socket}

\* The session server::operator() finds for (address, socket), if any.
Matching(W, address, socket) ==
  {i \in DOMAIN W.sessions :
     W.sessions[i].key = address /\ W.sessions[i].socket = socket}

\* A server that serves a new session on its listening socket.
listening_socket(created) == LISTEN

\* ctx.poller.emplace: the socket created for a new session.
poller_emplace(created) == created

\* server::operator(): demultiplex a datagram from address read on socket.
server_operator(W, socket, address, buf, env) ==
  LET found == Matching(W, address, socket)
      siter == Fresh(DOMAIN W.sessions)
      created == W.nsock + 1
      W1 == [W EXCEPT
               !.sessions = [i \in DOMAIN @ \cup {siter} |->
                               IF i = siter THEN session(address) ELSE @[i]],
               !.nsock = created]
  IN IF found # {}
     THEN service(W, socket, buf, CHOOSE i \in found : TRUE, env)
     ELSE reader(service(W1, poller_emplace(created), buf, siter, env), socket)

\* A callback that prepares and sends the next block.
data_timer_advances(W, id) ==
  LET t == W.timers[id]
  IN send_next(W, t.socket, t.siter,
               [sample |-> 0, junk |-> <<0, 0, 0, 0>>, tmpfails |-> FALSE, stamp |-> 0])

\* A callback that sends the DATA again and counts nothing.
data_timer_forgets(W, id) ==
  LET t == W.timers[id] IN send(W, t.socket, t.siter)

\* The callback of the timer send_next arms.
data_timer(W, id) ==
  LET t == W.timers[id]
  IN IF retries_exhausted(t.retries)
     THEN error(W, t.socket, t.siter, TIMED_OUT)
     ELSE send([W EXCEPT !.timers[id].retries = @ + 1], t.socket, t.siter)

\* A callback that sends the last ACK again and leaves the session.
ack_timer_resends(W, id) ==
  LET t == W.timers[id] IN ack_block(W, t.socket, t.siter)

\* The callback of the timer get_next arms.
ack_timer(W, id) ==
  LET t == W.timers[id] IN error(W, t.socket, t.siter, TIMED_OUT)

----------------------------------------------------------------------------
(* tftp.cpp: the protocol engine.  Each operation maps a session s and the *)
(* filesystem to the session and filesystem it leaves and its result code. *)

\* insert_data of tftp.cpp.
RECURSIVE netascii_insert(_, _)
netascii_insert(buffer, buf) ==
  IF buf = <<>> THEN buffer
  ELSE LET chr == Head(buf)
       IN IF chr = NUL THEN netascii_insert(buffer, Tail(buf))
          ELSE LET b1 == IF chr = LF
                         THEN IF Len(buffer) > HDRLEN /\ buffer[Len(buffer)] = NUL
                              THEN SubSeq(buffer, 1, Len(buffer) - 1)
                              ELSE Append(buffer, CR)
                         ELSE buffer
                   b2 == Append(b1, chr)
                   b3 == IF chr = CR THEN Append(b2, NUL) ELSE b2
               IN netascii_insert(b3, Tail(buf))
engine_insert_data(buffer, buf, mode) ==
  IF mode # NETASCII THEN buffer \o buf ELSE netascii_insert(buffer, buf)

\* send_next of tftp.cpp: prepare the next DATA block in s.buffer.
engine_send_next(s, f) ==
  LET block_num == (s.block_num + 1) % U16
      head == next_header(s.buffer, block_num)
      read_size == DATAMSG_MAXLEN - Len(head)
      chunk == IF s.file.isopen /\ Exists(f, s.file.path) /\ read_size > 0
               THEN readsome(f[s.file.path], s.file.pos, read_size)
               ELSE <<>>
  IN [s |-> [s EXCEPT !.block_num = block_num,
                      !.buffer = engine_insert_data(head, chunk, s.mode),
                      !.file.pos = @ + Len(chunk)],
      fs |-> f, ret |-> 0]

\* handle_request.  req: [opc, mode, filename].
request_is_invalid(req) == req.opc = DATA \/ req.opc = ACK \/ req.mode = 0
handle_request(req, s, f, c, env) ==
  LET target == IF req.opc = WRQ /\ req.mode = MAIL
                THEN MailPath(req.filename, env.stamp)
                ELSE req.filename
      staged == tmpfile_from(f, c, target, req.opc = WRQ, s.tmp, env.tmpfails)
      s1 == [s EXCEPT !.opc = req.opc, !.target = target, !.mode = req.mode,
                      !.file = staged.file, !.tmp = staged.tmp]
      sent_first == engine_send_next(s1, staged.fs)
  IN IF request_is_invalid(req)
     THEN [s |-> s, fs |-> f, count |-> c, ret |-> ILLEGAL_OPERATION]
     ELSE IF req.opc = RRQ /\ req.mode = MAIL
     THEN [s |-> s, fs |-> f, count |-> c, ret |-> ILLEGAL_OPERATION]
     ELSE IF staged.file.null
     THEN [s |-> s1, fs |-> staged.fs, count |-> staged.count,
           ret |-> IF staged.err = "ENOENT"
                   THEN IF req.opc = WRQ /\ req.mode = MAIL
                        THEN NO_SUCH_USER ELSE FILE_NOT_FOUND
                   ELSE ACCESS_VIOLATION]
     ELSE IF req.opc = RRQ
     THEN [s |-> sent_first.s, fs |-> staged.fs, count |-> staged.count, ret |-> 0]
     ELSE [s |-> s1, fs |-> staged.fs, count |-> staged.count, ret |-> 0]

\* handle_ack.  block: ntohs(ack.block_num).
handle_ack(block, s, f) ==
  IF s.opc # RRQ THEN [s |-> s, fs |-> f, ret |-> UNKNOWN_TID]
  ELSE IF Len(s.buffer) >= DATAMSG_MAXLEN /\ block = s.block_num
  THEN engine_send_next(s, f)
  ELSE IF block = s.block_num
  THEN [s |-> [s EXCEPT !.file.isopen = FALSE], fs |-> f, ret |-> 0]
  ELSE [s |-> s, fs |-> f, ret |-> 0]

\* handle_data.  buf: the DATA frame, header included, of at least HDRLEN bytes.
next_block(block_num) == (block_num + 1) % U16
handle_data(buf, s, f) ==
  LET payload == Drop(buf, HDRLEN)
      s1 == [s EXCEPT !.block_num = next_block(s.block_num)]
      written == IF Exists(f, s.tmp) THEN WriteFile(f, s.tmp, f[s.tmp] \o payload) ELSE f
      s2 == [s1 EXCEPT !.file.pos = @ + Len(payload)]
      s3 == [s2 EXCEPT !.file.isopen = FALSE]
  IN IF s.opc # WRQ THEN [s |-> s, fs |-> f, ret |-> UNKNOWN_TID]
     ELSE IF ntohs(buf, 2) # next_block(s.block_num) THEN [s |-> s, fs |-> f, ret |-> 0]
     \* file->write on a closed stream fails, unless it is given no byte.
     ELSE IF ~s.file.isopen /\ payload # <<>> THEN [s |-> s1, fs |-> f, ret |-> DISK_FULL]
     ELSE IF Len(payload) < DATALEN
     THEN IF Exists(written, s.tmp)
          THEN [s |-> s3, ret |-> 0,
                fs |-> RemoveFile(WriteFile(written, s.target, written[s.tmp]), s.tmp)]
          ELSE [s |-> s3, fs |-> written, ret |-> ACCESS_VIOLATION]
     ELSE [s |-> s2, fs |-> written, ret |-> 0]

----------------------------------------------------------------------------
(* The environment: peers, datagrams and what handlers read from outside.  *)

Sockets == 0..MaxSockets

\* The bytes of the source files, and source files told apart by length.
SourceText == <<97, 98, 99, 100, 101, 102, 103, 104>>
SourceFiles == {Take(SourceText, n) : n \in 0..MaxFileLen}

\* Bytes that follow a datagram in the read buffer: as many as a header.
Junks == {<<0, 0, 0, 0>>, <<0, 1, 120, 120>>}
\* env of a run where no handler reads past its datagram.
PlainEnvs == [sample : {0}, junk : {<<0, 0, 0, 0>>}, tmpfails : {FALSE}, stamp : {0}]
JunkEnvs == [sample : {0}, junk : Junks, tmpfails : {FALSE}, stamp : {0}]
\* env of a request whose temporary can or cannot be opened.
StagingEnvs == [sample : {0}, junk : {<<0, 0, 0, 0>>}, tmpfails : BOOLEAN, stamp : {0}]

Request(opc, filename, mode) == htons(opc) \o filename \o <<NUL>> \o mode \o <<NUL>>
AckMsg(block) == htons(ACK) \o htons(block)
DataMsg(block, payload) == htons(DATA) \o htons(block) \o payload
ErrorMsg == htons(ERROR) \o htons(0) \o <<NUL>>

\* Block numbers sent to (address, socket): at the offsets D from the
\* block of the session they reach.
Blocks(address, socket, D) ==
  LET found == Matching(World, address, socket)
  IN IF found = {} THEN {0, 1}
     ELSE LET b == sessions[CHOOSE i \in found : TRUE].block_num
          IN {(b + U16 + d) % U16 : d \in D}
Around == {-1, 0, 1}

\* The k-th block of the byte sequence D.
Chunk(D, k) == SubSeq(D, (k - 1) * DATALEN + 1, Min(k * DATALEN, Len(D)))

\* The file an uploader sends: byte i (from 0) is the letter i % 26, so
\* that block k carries bytes (k - 1) * DATALEN .. k * DATALEN - 1 and is
\* cut short where the file ends.
Upload(n) == [i \in 1..n |-> 65 + ((i - 1) % 26)]
UploadChunk(block) ==
  [j \in 1..DATALEN |-> 65 + ((((block + U16 - 1) % U16) * DATALEN + j - 1) % 26)]

\* A socket that has sent MaxSent datagrams is given no more DATA.
Uploadable(address, socket) ==
  \A i \in Matching(World, address, socket) :
    sessions[i].opc = WRQ => Len(sent[socket]) < MaxSent

----------------------------------------------------------------------------
(* Actions.  P: the peers that send, R: the requests they send,            *)
(* D: the block numbers they send, as offsets from their session's block,  *)
(* Y: the payload lengths they upload, E: what the handlers read from outside,    *)
(* N: the number of sessions the run may create.                           *)

\* rcvd: the datagram handled in the last step, none after a timer.  The
\* engine is handed its datagrams by a caller, on no socket of the model.
NoDatagram == [address |-> 0, socket |-> INVALID_SOCKET, bytes |-> <<>>]

\* The engine under a caller that owns one session: the session, the last
\* result code, the DATA packets the caller was handed to send, and the
\* number of DATA datagrams it passed in (at most MaxSent).  The
\* engine is driven on its own, in runs where the driver handles no
\* datagram.
EngineIdle == [s |-> session(0), ret |-> 0, out |-> <<>>, ndata |-> 0]

----------------------------------------------------------------------------
(* The command line (argument_parser.cpp, main.cpp).  Arguments are        *)
(* sequences of character codes.                                           *)

PORT == 69
flag_h == <<45, 104>>
flag_help == <<45, 45, 104, 101, 108, 112>>
flag_m == <<45, 109>>
flag_mail_prefix == <<45, 45, 109, 97, 105, 108, 45, 112, 114, 101, 102, 105, 120>>
flag_l == <<45, 108>>
flag_log_level == <<45, 45, 108, 111, 103, 45, 108, 101, 118, 101, 108>>
flag_p == <<45, 112>>
flag_port == <<45, 45, 112, 111, 114, 116>>
progname == <<116, 102, 116, 112, 100>>

\* spdlog::level::from_str knows the names of level_string_views and the
\* short forms warn and err.
level_names ==
  {<<116, 114, 97, 99, 101>>, <<100, 101, 98, 117, 103>>, <<105, 110, 102, 111>>,
   <<119, 97, 114, 110, 105, 110, 103>>, <<101, 114, 114, 111, 114>>,
   <<99, 114, 105, 116, 105, 99, 97, 108>>, <<111, 102, 102>>,
   <<119, 97, 114, 110>>, <<101, 114, 114>>}

NoOption == [flag |-> <<>>, value |-> <<>>]
\* The place of the first '=' in token, Len(token) + 1 if it has none.
find_delim(token) ==
  IF \E k \in DOMAIN token : token[k] = 61
  THEN CHOOSE k \in DOMAIN token :
         token[k] = 61 /\ \A j \in 1..(k - 1) : token[j] # 61
  ELSE Len(token) + 1

\* parser_impl::next: the loop from current with opt collected so far;
\* gives the option and the place the next call starts from.
RECURSIVE parser_next(_, _, _)
parser_next(args, current, opt) ==
  IF current > Len(args) THEN [opt |-> opt, current |-> current]
  ELSE
    LET token == args[current]
    IN IF token[1] = 45
       THEN IF opt.flag # <<>> \/ opt.value # <<>>
            THEN [opt |-> opt, current |-> current]
            ELSE IF Len(token) > 2 /\ token[2] = 45 /\ find_delim(token) <= Len(token)
                 THEN parser_next(args, current + 1,
                        [flag |-> SubSeq(token, 1, find_delim(token) - 1),
                         value |-> SubSeq(token, find_delim(token) + 1, Len(token))])
                 ELSE parser_next(args, current + 1, [opt EXCEPT !.flag = token])
       ELSE IF opt.flag # <<>> /\ \A k \in DOMAIN opt.flag : opt.flag[k] = 45
            THEN [opt |-> opt, current |-> current]
            ELSE IF opt.value # <<>>
                 THEN [opt |-> opt, current |-> current]
                 ELSE parser_next(args, current + 1, [opt EXCEPT !.value = token])

\* argument_parser::parse: the options of args, from the argument after
\* the program's name.
RECURSIVE parse_from(_, _)
parse_from(args, current) ==
  IF current > Len(args) THEN <<>>
  ELSE LET r == parser_next(args, current, NoOption)
       IN <<r.opt>> \o parse_from(args, r.current)
parse(args) == parse_from(args, 2)

\* set_loglevel: 0 if value names a level in some case, -1 if not.
set_loglevel(value) ==
  IF [k \in DOMAIN value |-> tolower(value[k])] \in level_names THEN 0 ELSE -1

RECURSIVE decimal(_)
decimal(digits) ==
  IF digits = <<>> THEN 0
  ELSE 10 * decimal(SubSeq(digits, 1, Len(digits) - 1)) + (digits[Len(digits)] - 48)

\* std::from_chars(value.cbegin(), value.cend(), conf.port): the digits
\* value starts with are read, whatever follows them; no digit, or a
\* number above 65535, is an error and leaves port as it was.
from_chars(value, port) ==
  LET n == CHOOSE n \in 0..Len(value) :
             /\ \A k \in 1..n : value[k] \in 48..57
             /\ n < Len(value) => value[n + 1] \notin 48..57
      number == decimal(SubSeq(value, 1, n))
  IN IF n = 0 \/ number >= U16 THEN [ok |-> FALSE, port |-> port]
     ELSE [ok |-> TRUE, port |-> number]

Usage(stream) == [to |-> stream, text |-> "usage"]
\* parse_args, over the options from place k on: the configuration, or none,
\* and what was written.
RECURSIVE parse_options(_, _, _, _)
parse_options(options, k, conf, out) ==
  IF k > Len(options) THEN [ok |-> TRUE, conf |-> conf, out |-> out]
  ELSE
    LET flag == options[k].flag
        value == options[k].value
        refuse(text) == [ok |-> FALSE, conf |-> conf,
                        out |-> out \o text \o <<Usage("stderr")>>]
    IN IF flag = <<>> THEN parse_options(options, k + 1, conf, out)
       ELSE IF flag = flag_h \/ flag = flag_help
         THEN [ok |-> FALSE, conf |-> conf, out |-> out \o <<Usage("stdout")>>]
       ELSE IF flag = flag_m \/ flag = flag_mail_prefix
         THEN parse_options(options, k + 1, [conf EXCEPT !.mail_prefix = value], out)
       ELSE IF flag = flag_l \/ flag = flag_log_level
         THEN IF set_loglevel(value) = 0
              THEN parse_options(options, k + 1,
                     [conf EXCEPT !.level = [j \in DOMAIN value |-> tolower(value[j])]], out)
              ELSE refuse(<<[to |-> "stderr", text |-> "Unrecognized log level"]>>)
       ELSE IF flag = flag_p \/ flag = flag_port
         THEN IF from_chars(value, conf.port).ok
              THEN parse_options(options, k + 1,
                     [conf EXCEPT !.port = from_chars(value, conf.port).port], out)
              ELSE refuse(<<[to |-> "stderr", text |-> "Invalid port number"]>>)
       ELSE refuse(<<[to |-> "stderr", text |-> "Unknown flag"]>>)

config == [port |-> PORT, mail_prefix |-> <<>>, level |-> <<105, 110, 102, 111>>]
parse_args(argv) == parse_options(parse(argv), 1, config, <<>>)

\* main up to server.start, or to its return when parse_args gave no
\* configuration: main has one return, of 0.
main(argv) ==
  LET conf == parse_args(argv)
  IN IF conf.ok
     THEN [argv |-> argv, state |-> "running", status |-> 0, conf |-> conf.conf,
           out |-> conf.out \o <<[to |-> "log", text |-> "starting"]>>]
     ELSE [argv |-> argv, state |-> "exited", status |-> 0, conf |-> conf.conf,
           out |-> conf.out]

\* The process of a server that was started without arguments.
Serving == main(<<progname>>)

Apply(W) ==
  /\ sessions' = W.sessions
  /\ timers' = W.timers
  /\ fs' = W.fs
  /\ count' = W.count
  /\ nsock' = W.nsock
  /\ open' = W.open
  /\ sent' = W.sent
  /\ UNCHANGED <<eng, proc>>

\* The read buffer of the service holds BUFSIZE bytes, one full DATA
\* message: a longer DATA is cut to it.  Requests, which fit the buffer of
\* 516 bytes, are not cut to the buffer of the model.
BUFSIZE == DATAMSG_MAXLEN
recvmsg(buf) == IF ntohs(buf, 0) = DATA THEN Take(buf, BUFSIZE) ELSE buf

\* A datagram from address is read on socket.
Receive(address, socket, buf, env, N) ==
  /\ eng = EngineIdle
  /\ socket \in open
  /\ Matching(World, address, socket) = {} => nsock < N
  /\ Apply(server_operator(World, socket, address, recvmsg(buf), env))
  /\ rcvd' = [address |-> address, socket |-> socket, bytes |-> buf]

RecvRequest(P, R, E, N) ==
  \E address \in P, socket \in open, buf \in R, env \in E :
    Receive(address, socket, buf, env, N)

RecvAck(P, D, E, N) ==
  \E address \in P, socket \in open, env \in E :
    \E block \in Blocks(address, socket, D) :
      Receive(address, socket, AckMsg(block), env, N)

RecvData(P, D, Y, E, N) ==
  \E address \in P, socket \in open, env \in E, len \in Y :
    \E block \in Blocks(address, socket, D) :
      /\ Uploadable(address, socket)
      /\ Receive(address, socket, DataMsg(block, Take(UploadChunk(block), len)), env, N)

RecvOther(P, E, N) ==
  \E address \in P, socket \in open, env \in E :
    Receive(address, socket, ErrorMsg, env, N)

\* ACK and DATA datagrams cut short of their block number, and a DATA of
\* the next block with one byte more than a full payload.
Malformed(address, socket) ==
  {htons(ACK), htons(ACK) \o <<0>>, htons(DATA), htons(DATA) \o <<0>>}
    \cup {DataMsg(block, UploadChunk(block) \o <<90>>) :
            block \in Blocks(address, socket, {1})}
RecvMalformed(P, E, N) ==
  \E address \in P, socket \in open, env \in E :
    \E buf \in Malformed(address, socket) :
      /\ Uploadable(address, socket)
      /\ Receive(address, socket, buf, env, N)

DataTimer ==
  \E id \in DOMAIN timers :
    /\ timers[id].kind = "data"
    /\ Apply(data_timer(World, id))
    /\ rcvd' = NoDatagram

AckTimer ==
  \E id \in DOMAIN timers :
    /\ timers[id].kind = "ack"
    /\ Apply(ack_timer(World, id))
    /\ rcvd' = NoDatagram


EngRequest(R, E) ==
  \E buf \in R, env \in E :
    LET req == parse_request(buf)
        r == handle_request(req, eng.s, fs, count, env)
    IN /\ nsock = 0
       /\ eng.s.opc = 0 /\ eng.ret = 0
       /\ req.ok
       /\ eng' = [s |-> r.s, ret |-> r.ret, ndata |-> eng.ndata,
                  out |-> IF r.ret = 0 /\ r.s.opc = RRQ
                          THEN <<Take(r.s.buffer, DATAMSG_MAXLEN)>> ELSE <<>>]
       /\ fs' = r.fs
       /\ count' = r.count
       /\ rcvd' = [address |-> 0, socket |-> INVALID_SOCKET, bytes |-> buf]
       /\ UNCHANGED <<sessions, timers, nsock, open, sent, proc>>

\* handle_request called with the request req as its caller built it; rcvd
\* holds the opcode, the file name and the number of the mode.
ArgsOf(req) == htons(req.opc) \o req.filename \o <<NUL, req.mode>>
EngCall(Q, E) ==
  \E req \in Q, env \in E :
    LET r == handle_request(req, eng.s, fs, count, env)
    IN /\ nsock = 0
       /\ eng = EngineIdle
       /\ eng' = [s |-> r.s, ret |-> r.ret, ndata |-> eng.ndata,
                  out |-> IF r.ret = 0 /\ r.s.opc = RRQ
                          THEN <<Take(r.s.buffer, DATAMSG_MAXLEN)>> ELSE <<>>]
       /\ fs' = r.fs
       /\ count' = r.count
       /\ rcvd' = [address |-> 0, socket |-> INVALID_SOCKET, bytes |-> ArgsOf(req)]
       /\ UNCHANGED <<sessions, timers, nsock, open, sent, proc>>

EngAck(D) ==
  \E d \in D :
    LET buf == AckMsg((eng.s.block_num + U16 + d) % U16)
        r == handle_ack(ntohs(buf, 2), eng.s, fs)
    IN /\ eng.s.opc # 0 /\ eng.ret = 0
       /\ eng' = [s |-> r.s, ret |-> r.ret, ndata |-> eng.ndata,
                  out |-> IF r.ret = 0 /\ r.s.block_num # eng.s.block_num
                          THEN Append(eng.out, Take(r.s.buffer, DATAMSG_MAXLEN))
                          ELSE eng.out]
       /\ fs' = r.fs
       /\ rcvd' = [address |-> 0, socket |-> INVALID_SOCKET, bytes |-> buf]
       /\ UNCHANGED <<sessions, timers, count, nsock, open, sent, proc>>

EngData(D, Y) ==
  \E d \in D, len \in Y :
    LET block == (eng.s.block_num + U16 + d) % U16
        buf == DataMsg(block, Take(UploadChunk(block), len))
        r == handle_data(buf, eng.s, fs)
    IN /\ eng.s.opc # 0 /\ eng.ret = 0
       /\ eng.ndata < MaxSent
       /\ eng' = [eng EXCEPT !.s = r.s, !.ret = r.ret, !.ndata = @ + 1]
       /\ fs' = r.fs
       /\ rcvd' = [address |-> 0, socket |-> INVALID_SOCKET, bytes |-> buf]
       /\ UNCHANGED <<sessions, timers, count, nsock, open, sent, proc>>

InitServer ==
  /\ sessions = <<>>
  /\ timers = <<>>
  /\ count = 0
  /\ nsock = 0
  /\ open = {LISTEN}
  /\ sent = [s \in Sockets |-> <<>>]
  /\ rcvd = NoDatagram
  /\ eng = EngineIdle
  /\ proc = Serving

----------------------------------------------------------------------------
(* Spec: two peers, reads and uploads, on every socket; a transfer that    *)
(* stalls is ended by the upload timer.                                    *)

Peers == {1, 2}
MainRequests == {Request(RRQ, path_f, str_octet), Request(WRQ, path_g, str_octet)}
MainPayloads == {1}

Init ==
  /\ InitServer
  /\ fs = [p \in {path_f} |-> Take(SourceText, 1)]

Next ==
  \/ RecvRequest(Peers, MainRequests, PlainEnvs, MaxSockets)
  \/ RecvAck(Peers, {0}, PlainEnvs, MaxSockets)
  \/ RecvData(Peers, {1}, MainPayloads, PlainEnvs, MaxSockets)
  \/ RecvOther(Peers, PlainEnvs, MaxSockets)
  \/ AckTimer

Spec == Init /\ [][Next]_vars

----------------------------------------------------------------------------
(* SpecStray: a reader runs its transfer, retransmissions included, while  *)
(* a stranger sends WRQ, ACK, DATA and ERROR datagrams to every open       *)
(* socket.                                                                 *)

Reader == 1
Stranger == 2

NextStray ==
  \/ RecvRequest({Reader}, {Request(RRQ, path_f, str_octet)}, PlainEnvs, MaxTransfers)
  \/ RecvAck({Reader}, {0}, PlainEnvs, MaxTransfers)
  \/ RecvRequest({Stranger}, {Request(WRQ, path_g, str_octet)}, PlainEnvs, MaxTransfers + 1)
  \/ RecvAck({Stranger}, {0}, PlainEnvs, MaxTransfers + 1)
  \/ RecvData({Stranger}, {1}, MainPayloads, PlainEnvs, MaxTransfers + 1)
  \/ RecvOther({Stranger}, PlainEnvs, MaxTransfers + 1)
  \/ DataTimer
  \/ AckTimer

\* The reader's source fills one DATA block: a full block, then an empty one.
InitStray ==
  /\ InitServer
  /\ fs = [p \in {path_f} |-> Take(SourceText, DATALEN)]

SpecStray == InitStray /\ [][NextStray]_vars

----------------------------------------------------------------------------
(* SpecRead: one peer reads source files of every length.                  *)

ReadRequests == {Request(RRQ, path_f, str_octet), Request(WRQ, path_f, str_octet)}

InitRead ==
  /\ InitServer
  /\ fs \in {[p \in {path_f} |-> c] : c \in SourceFiles}

NextRead ==
  \/ RecvRequest({1}, ReadRequests, PlainEnvs, MaxTransfers)
  \/ RecvAck({1}, Around, PlainEnvs, MaxTransfers)
  \/ DataTimer
  \/ EngRequest(ReadRequests, PlainEnvs)
  \/ EngAck(Around)

SpecRead == InitRead /\ [][NextRead]_vars

----------------------------------------------------------------------------
(* SpecWrite: each uploader runs one upload to a target that exists or     *)
(* not, in octet and netascii mode, with duplicate and out-of-order DATA;  *)
(* the handlers find arbitrary bytes after the datagram in the read        *)
(* buffer.                                                                 *)

Uploaders == {1}

WriteRequests == {Request(WRQ, path_g, str_octet), Request(WRQ, path_g, str_netascii)}
\* Payloads of every length 0..DATALEN.
Payloads == 0..DATALEN
\* What the target holds before the upload.
OldContent == <<111, 108, 100>>
AtOrAfter == {0, 1, 2}

InitWrite ==
  /\ InitServer
  /\ fs \in {<<>>, [p \in {path_g} |-> OldContent]}

NextWrite ==
  \/ RecvRequest(Uploaders, WriteRequests, StagingEnvs, Cardinality(Uploaders))
  \/ RecvData(Uploaders, AtOrAfter, Payloads, JunkEnvs, Cardinality(Uploaders))
  \/ AckTimer
  \/ EngRequest(WriteRequests, StagingEnvs)
  \/ EngData(AtOrAfter, Payloads)

SpecWrite == InitWrite /\ [][NextWrite]_vars

----------------------------------------------------------------------------
(* SpecWrap: transfers that have reached block 65534: a read or an upload  *)
(* on the driver, or a read or an upload on the engine.  The log of        *)
(* datagrams sent starts at that point, and so do the files: fs holds each *)
(* file from the offset its transfer has reached, and a stream's position  *)
(* counts from that offset.  readsome never reads before the position, and *)
(* server::data and handle_data only append to what is staged.             *)

WrapBlock == U16 - 2
Writer == 2
\* Byte i of a source of 65535 full blocks and one byte, whose last block
\* is block 0.
WrapSourceByte(i) == 97 + (i % 26)
\* Block b of the source.
WrapChunk(b) == [j \in 1..DATALEN |-> WrapSourceByte((b - 1) * DATALEN + j)]
\* The source after its first b blocks.
WrapSource(b) ==
  [j \in 1..((U16 - 1 - b) * DATALEN + 1) |-> WrapSourceByte(b * DATALEN + j)]
WrapTmp == tmpname(0).path

\* The session of a read that has sent block b of the source.
ReadingAt(b, peer, socket, timer, avg_rtt) ==
  [key |-> peer, target |-> path_f, tmp |-> WrapTmp,
   buffer |-> DataMsg(b, WrapChunk(b)),
   file |-> [null |-> FALSE, path |-> WrapTmp, isopen |-> TRUE, pos |-> 0],
   avg_rtt |-> avg_rtt, timer |-> timer, socket |-> socket,
   block_num |-> b, opc |-> RRQ, mode |-> OCTET]
\* The session of an upload that has accepted block b.
WritingAt(b, peer, socket, timer, avg_rtt, buffer) ==
  [key |-> peer, target |-> path_g, tmp |-> WrapTmp, buffer |-> buffer,
   file |-> [null |-> FALSE, path |-> WrapTmp, isopen |-> TRUE, pos |-> 0],
   avg_rtt |-> avg_rtt, timer |-> timer, socket |-> socket,
   block_num |-> b, opc |-> WRQ, mode |-> OCTET]

InitWrapDriver(s, kind, files, last) ==
  /\ sessions = [i \in {0} |-> s]
  /\ timers = [t \in {0} |-> [siter |-> 0, socket |-> 1, kind |-> kind, retries |-> 0,
                              interval |-> IF kind = "data" THEN 2 * s.avg_rtt
                                           ELSE 5 * s.avg_rtt]]
  /\ fs = files
  /\ count = tmpname(0).count
  /\ nsock = 1
  /\ open = {LISTEN, 1}
  /\ sent = [k \in Sockets |-> <<>>]
  /\ rcvd = [address |-> s.key, socket |-> 1, bytes |-> last]
  /\ eng = EngineIdle
  /\ proc = Serving

InitWrapEngine(s, files, last) ==
  /\ sessions = <<>>
  /\ timers = <<>>
  /\ fs = files
  /\ count = tmpname(0).count
  /\ nsock = 0
  /\ open = {LISTEN}
  /\ sent = [k \in Sockets |-> <<>>]
  /\ rcvd = [address |-> 0, socket |-> INVALID_SOCKET, bytes |-> last]
  /\ eng = [s |-> s, ret |-> 0, out |-> <<>>, ndata |-> 0]
  /\ proc = Serving

InitWrap ==
  \/ InitWrapDriver(ReadingAt(WrapBlock, Reader, 1, 0, TIMEOUT_MIN), "data",
                    (path_f :> WrapSource(WrapBlock)) @@ (WrapTmp :> WrapSource(WrapBlock)),
                    AckMsg(WrapBlock - 1))
  \/ InitWrapDriver(WritingAt(WrapBlock, Writer, 1, 0, TIMEOUT_MIN, AckMsg(WrapBlock)),
                    "ack", (path_g :> <<>>) @@ (WrapTmp :> <<>>),
                    DataMsg(WrapBlock, UploadChunk(WrapBlock)))
  \/ InitWrapEngine(ReadingAt(WrapBlock, 0, INVALID_SOCKET, INVALID_TIMER, TIMEOUT_MAX),
                    (path_f :> WrapSource(WrapBlock)) @@ (WrapTmp :> WrapSource(WrapBlock)),
                    AckMsg(WrapBlock - 1))
  \/ InitWrapEngine(WritingAt(WrapBlock, 0, INVALID_SOCKET, INVALID_TIMER, TIMEOUT_MAX,
                              <<>>),
                    (path_g :> <<>>) @@ (WrapTmp :> <<>>),
                    DataMsg(WrapBlock, UploadChunk(WrapBlock)))

NextWrap ==
  \/ RecvAck({Reader}, Around, PlainEnvs, MaxTransfers)
  \/ RecvData({Writer}, AtOrAfter, Payloads, PlainEnvs, MaxTransfers)
  \/ DataTimer
  \/ AckTimer
  \/ EngAck(Around)
  \/ EngData(AtOrAfter, Payloads)

SpecWrap == InitWrap /\ [][NextWrap]_vars

----------------------------------------------------------------------------
(* SpecStage: one request, of every opcode and mode, for a file that       *)
(* exists, is absent, may not be opened or lies in a missing directory,    *)
(* or for a mail user with or without a directory, handed to               *)
(* handle_request or sent to the driver; the temporary can be opened or    *)
(* not.                                                                    *)

user_v == <<118>>
Opcodes == 0..ERROR
Modes == 0..MAIL
Names == {path_f, path_g, path_x, path_n, user_u, user_v}
ModeNames == {str_netascii, str_octet, str_mail}
Calls == [opc : Opcodes, mode : Modes, filename : Names]
StageRequests == {Request(opc, name, mode) : opc \in {RRQ, WRQ}, name \in Names, mode \in ModeNames}

InitStage ==
  /\ InitServer
  /\ fs = (path_f :> Take(SourceText, 1)) @@ (path_x :> Take(SourceText, 1))

NextStage ==
  \/ EngCall(Calls, StagingEnvs)
  \/ RecvRequest({1}, StageRequests, StagingEnvs, MaxTransfers)

SpecStage == InitStage /\ [][NextStage]_vars

----------------------------------------------------------------------------
(* SpecError: a peer sends requests that are served and requests that     *)
(* fail; it and a second peer send ACK, DATA and ERROR datagrams to every  *)
(* open socket, while upload timers expire; each engine operation is       *)
(* called on sessions of either operation.                                 *)

ErrorRequests ==
  {Request(RRQ, path_f, str_octet), Request(WRQ, path_g, str_octet),
   Request(RRQ, path_g, str_octet), Request(RRQ, path_f, str_mail),
   Request(WRQ, path_x, str_octet), Request(WRQ, user_v, str_mail)}

InitError ==
  /\ InitServer
  /\ fs = [p \in {path_f} |-> Take(SourceText, 1)]

NextError ==
  \/ RecvRequest({Reader}, ErrorRequests, PlainEnvs, MaxSockets)
  \/ RecvAck(Peers, {0}, PlainEnvs, MaxSockets)
  \/ RecvData(Peers, {1}, MainPayloads, PlainEnvs, MaxSockets)
  \/ RecvOther(Peers, PlainEnvs, MaxSockets)
  \/ AckTimer
  \/ EngRequest(MainRequests, PlainEnvs)
  \/ EngAck({0})
  \/ EngData({1}, MainPayloads)

SpecError == InitError /\ [][NextError]_vars

----------------------------------------------------------------------------
(* SpecShort: a read or an upload of one peer is sent, besides ACK and     *)
(* DATA, datagrams too short to hold a block number and DATA too long for  *)
(* the read buffer; the handlers find arbitrary bytes after a short        *)
(* datagram.                                                               *)

NextShort ==
  \/ RecvRequest({Reader}, MainRequests, PlainEnvs, MaxTransfers)
  \/ RecvAck({Reader}, {0}, PlainEnvs, MaxTransfers)
  \/ RecvData({Reader}, {1}, MainPayloads, PlainEnvs, MaxTransfers)
  \/ RecvMalformed({Reader}, JunkEnvs, MaxTransfers)
  \/ AckTimer

SpecShort == InitStray /\ [][NextShort]_vars

----------------------------------------------------------------------------
(* SpecNetascii: one peer reads, in netascii mode, every source text of up *)
(* to MaxTextLen bytes over CR, LF, NUL and a letter, from the driver and  *)
(* from the engine, acknowledging each block once.                         *)

TextBytes == {CR, LF, NUL, 97}
SourceTexts == SeqsUpTo(TextBytes, MaxTextLen)
NetasciiRequests == {Request(RRQ, path_f, str_netascii)}

InitNetascii ==
  /\ InitServer
  /\ fs \in {[p \in {path_f} |-> c] : c \in SourceTexts}

NextNetascii ==
  \/ RecvRequest({1}, NetasciiRequests, PlainEnvs, MaxTransfers)
  \/ RecvAck({1}, {0}, PlainEnvs, MaxTransfers)
  \/ EngRequest(NetasciiRequests, PlainEnvs)
  \/ EngAck({0})

SpecNetascii == InitNetascii /\ [][NextNetascii]_vars

----------------------------------------------------------------------------
(* SpecCopy: one read of a source that another process overwrites while    *)
(* the transfer runs, with re-sends and expiry, on the driver and on the   *)
(* engine.  A single request is accepted, so that every write to the       *)
(* source comes after the acceptance.                                      *)

Original == Take(SourceText, MaxFileLen)
Overwrites == {<<>>, <<120>>, <<120, 121, 122, 120, 121>>}
CopyRequests == {Request(RRQ, path_f, str_octet)}

\* Another process writes content to the source of a running transfer.
ModifySource(C) ==
  \E content \in C :
    /\ DOMAIN sessions # {} \/ eng.s.opc # 0
    /\ fs[path_f] # content
    /\ fs' = [fs EXCEPT ![path_f] = content]
    /\ rcvd' = NoDatagram
    /\ UNCHANGED <<sessions, timers, count, nsock, open, sent, eng, proc>>

InitCopy ==
  /\ InitServer
  /\ fs = [p \in {path_f} |-> Original]

NextCopy ==
  \/ RecvRequest({1}, CopyRequests, PlainEnvs, 1)
  \/ RecvAck({1}, {0}, PlainEnvs, 1)
  \/ DataTimer
  \/ ModifySource(Overwrites)
  \/ EngRequest(CopyRequests, PlainEnvs)
  \/ EngAck({0})

SpecCopy == InitCopy /\ [][NextCopy]_vars

----------------------------------------------------------------------------
(* SpecEnd: sessions of the driver ended in every way: a read acknowledged *)
(* to its end, an upload committed and left to its deadline, a request     *)
(* whose staging fails, a datagram of the wrong kind, an ERROR datagram,   *)
(* re-sends exhausted, a deadline expired mid-transfer.                    *)

EndRequests ==
  {Request(RRQ, path_f, str_octet), Request(RRQ, path_g, str_octet),
   Request(RRQ, path_x, str_octet), Request(WRQ, path_g, str_octet),
   Request(WRQ, path_n, str_octet)}
EndPayloads == {1, DATALEN}

InitEnd ==
  /\ InitServer
  /\ fs = (path_f :> Take(SourceText, DATALEN)) @@ (path_x :> Take(SourceText, 1))

NextEnd ==
  \/ RecvRequest({Reader}, EndRequests, StagingEnvs, 1)
  \/ RecvAck({Reader}, {0}, PlainEnvs, 1)
  \/ RecvData({Reader}, {1}, EndPayloads, PlainEnvs, 1)
  \/ RecvOther({Reader}, PlainEnvs, 1)
  \/ DataTimer
  \/ AckTimer

SpecEnd == InitEnd /\ [][NextEnd]_vars

----------------------------------------------------------------------------
(* SpecRtt: a read of RttBlocks full blocks and an upload, every round     *)
(* trip sampled at 0 ms, a few ms, TIMEOUT_MAX or far above it.            *)

Samples == {0, 9, TIMEOUT_MAX, 100000}
RttEnvs == [sample : Samples, junk : {<<0, 0, 0, 0>>}, tmpfails : {FALSE}, stamp : {0}]
RttSource == [i \in 1..(RttBlocks * DATALEN) |-> 97 + (i % 26)]

InitRtt ==
  /\ InitServer
  /\ fs = [p \in {path_f} |-> RttSource]

NextRtt ==
  \/ RecvRequest({Reader}, MainRequests, RttEnvs, 1)
  \/ RecvAck({Reader}, {0}, RttEnvs, 1)
  \/ RecvData({Reader}, {1}, {DATALEN}, RttEnvs, 1)
  \/ AckTimer

SpecRtt == InitRtt /\ [][NextRtt]_vars

----------------------------------------------------------------------------
(* SpecCount: the server after 65535 temporary names: its first session, a *)
(* read that its peer keeps acknowledging slowly, is still in the table    *)
(* with the first name, the other sessions have come and gone.  Two more   *)
(* peers send requests and run their transfers before the first peer's    *)
(* next ACK.                                                               *)

LaterPeers == {2, 3}
CountSource == Take(SourceText, 2 * DATALEN)
\* The first session, block 1 of the source sent.
FirstSession ==
  [key |-> Reader, target |-> path_f, tmp |-> tmpname(0).path,
   buffer |-> DataMsg(1, Chunk(CountSource, 1)),
   file |-> [null |-> FALSE, path |-> tmpname(0).path, isopen |-> TRUE, pos |-> DATALEN],
   avg_rtt |-> TIMEOUT_MAX, timer |-> 0, socket |-> 1,
   block_num |-> 1, opc |-> RRQ, mode |-> OCTET]

InitCount ==
  /\ sessions = [i \in {0} |-> FirstSession]
  /\ timers = [t \in {0} |-> [siter |-> 0, socket |-> 1, kind |-> "data", retries |-> 0,
                              interval |-> 2 * TIMEOUT_MAX]]
  /\ fs = (path_f :> CountSource) @@ (tmpname(0).path :> CountSource)
  /\ count = U16 - 1
  /\ nsock = 1
  /\ open = {LISTEN, 1}
  /\ sent = [k \in 0..(MaxSockets + 1) |->
               IF k = 1 THEN <<[to |-> Reader, bytes |-> FirstSession.buffer]>>
               ELSE <<>>]
  /\ rcvd = [address |-> Reader, socket |-> LISTEN,
             bytes |-> Request(RRQ, path_f, str_octet)]
  /\ eng = EngineIdle
  /\ proc = Serving

NextCount ==
  \/ RecvRequest(LaterPeers, MainRequests, PlainEnvs, MaxSockets + 1)
  \/ RecvAck(LaterPeers, {0}, PlainEnvs, MaxSockets + 1)
  \/ RecvData(LaterPeers, {1}, MainPayloads, PlainEnvs, MaxSockets + 1)
  \/ AckTimer

SpecCount == InitCount /\ [][NextCount]_vars

----------------------------------------------------------------------------
(* SpecParse: request datagrams with and without file name, with and       *)
(* without each terminator, with mode strings in either case, cut short,   *)
(* extended or unknown, and with bytes after the mode; also under opcodes  *)
(* that are no request.                                                    *)

ParseModes ==
  {str_octet, str_netascii, str_mail,
   <<79, 67, 84, 69, 84>>, <<79, 99, 84, 101, 116>>,
   <<78, 101, 116, 65, 115, 99, 105, 105>>, <<77, 65, 73, 76>>,
   <<>>, <<111, 99, 116, 101>>, <<111, 99, 116, 101, 116, 120>>,
   <<110, 101, 116, 97, 115, 99, 105>>, str_netascii \o <<120>>,
   str_netascii \o <<120, 121>>, str_mail \o str_mail,
   <<98, 105, 110, 97, 114, 121>>}
ParseDatagrams ==
  {htons(opc) \o name \o end1 \o mode \o end2 :
     opc \in {RRQ, WRQ, ERROR}, name \in {<<>>, path_f, path_g},
     end1 \in {<<>>, <<NUL>>}, mode \in ParseModes,
     end2 \in {<<>>, <<NUL>>, <<NUL, 120>>}}

InitParse ==
  /\ InitServer
  /\ fs = [p \in {path_f} |-> Take(SourceText, 1)]

NextParse ==
  \/ RecvRequest({Reader}, ParseDatagrams, PlainEnvs, 1)
  \/ RecvAck({Reader}, {0}, PlainEnvs, 1)
  \/ AckTimer

SpecParse == InitParse /\ [][NextParse]_vars

----------------------------------------------------------------------------
(* SpecMain: the process from its command line to the start of the server  *)
(* or to its exit, and from a signal to its exit.                          *)

MaxArgs == 2
Arguments ==
  {flag_h, flag_help, flag_p, flag_l, flag_m, <<45, 120>>, <<45, 45>>,
   <<45, 45, 98, 111, 103, 117, 115>>,
   flag_port \o <<61, 56, 48>>, flag_port \o <<61, 120>>,
   flag_log_level \o <<61, 68, 101, 98, 117, 103>>,
   <<56, 48>>, <<56, 120>>, <<55, 48, 48, 48, 48>>,
   <<105, 110, 102, 111>>, <<108, 111, 117, 100>>}
CommandLines ==
  UNION {{<<progname>> \o args : args \in [1..n -> Arguments]} : n \in 0..MaxArgs}

\* main, called with the command line in proc.argv.
Main ==
  /\ proc.state = "init"
  /\ proc' = main(proc.argv)
  /\ open' = IF proc'.state = "running" THEN {LISTEN} ELSE {}
  /\ UNCHANGED <<sessions, timers, fs, count, nsock, sent, rcvd, eng>>

\* SIGTERM, SIGHUP or SIGINT: the signal handler stops the server, the waits
\* of main return and main returns 0.
Signal ==
  /\ proc.state = "running"
  /\ proc' = [proc EXCEPT !.state = "exited", !.status = 0,
                          !.out = @ \o <<[to |-> "log", text |-> "stopped"]>>]
  /\ open' = {}
  /\ UNCHANGED <<sessions, timers, fs, count, nsock, sent, rcvd, eng>>

InitMain ==
  /\ sessions = <<>>
  /\ timers = <<>>
  /\ fs = [p \in {path_f} |-> Take(SourceText, 1)]
  /\ count = 0
  /\ nsock = 0
  /\ open = {}
  /\ sent = [s \in Sockets |-> <<>>]
  /\ rcvd = NoDatagram
  /\ eng = EngineIdle
  /\ \E argv \in CommandLines :
       proc = [argv |-> argv, state |-> "init", status |-> 0, conf |-> config,
               out |-> <<>>]

NextMain == Main \/ Signal

SpecMain == InitMain /\ [][NextMain]_vars

----------------------------------------------------------------------------
(* SpecResend: one read, in octet or netascii mode, of texts that leave a  *)
(* carry in the buffer or none, each block acknowledged after any number   *)
(* of expiries of the retransmission timer.                                *)

ResendTexts ==
  {<<>>, <<LF, LF, LF>>, <<97, LF, 97>>, <<CR, 97>>, Take(SourceText, MaxFileLen)}
ResendRequests == {Request(RRQ, path_f, str_octet), Request(RRQ, path_f, str_netascii)}

InitResend ==
  /\ InitServer
  /\ fs \in {[p \in {path_f} |-> c] : c \in ResendTexts}

NextResend ==
  \/ RecvRequest({Reader}, ResendRequests, PlainEnvs, 1)
  \/ RecvAck({Reader}, {0}, PlainEnvs, 1)
  \/ DataTimer

SpecResend == InitResend /\ [][NextResend]_vars

----------------------------------------------------------------------------
(* SpecOther: a peer that sends, before or during its read or upload,      *)
(* datagrams whose opcode is none of RRQ, WRQ, DATA and ACK.               *)

OtherDatagrams ==
  {htons(0) \o htons(0), ErrorMsg, htons(ERROR + 1) \o htons(1) \o <<120>>,
   htons(U16 - 1) \o htons(1)}

NextOther ==
  \/ RecvRequest({Reader}, EndRequests, PlainEnvs, 1)
  \/ RecvAck({Reader}, {0}, PlainEnvs, 1)
  \/ RecvData({Reader}, {1}, EndPayloads, PlainEnvs, 1)
  \/ RecvRequest({Reader}, OtherDatagrams, PlainEnvs, 1)
  \/ DataTimer
  \/ AckTimer

SpecOther == InitEnd /\ [][NextOther]_vars

----------------------------------------------------------------------------
(* SpecCarry: netascii reads, from the driver and from the engine, of      *)
(* texts over CR, LF and a letter that are longer than two payloads, so    *)
(* that a block can be prepared while the buffer holds a full carry.       *)

CarryTexts == {t \in SeqsUpTo({CR, LF, 97}, 2 * DATALEN + 1) : Len(t) >= 2 * DATALEN}

InitCarry ==
  /\ InitServer
  /\ fs \in {[p \in {path_f} |-> c] : c \in CarryTexts}

NextCarry ==
  \/ RecvRequest({Reader}, NetasciiRequests, PlainEnvs, 1)
  \/ RecvAck({Reader}, {0}, PlainEnvs, 1)
  \/ EngRequest(NetasciiRequests, PlainEnvs)
  \/ EngAck({0})

SpecCarry == InitCarry /\ [][NextCarry]_vars

\* Two uploads to the same target, told apart by their bytes: peer 1 sends
\* capital letters, peer 2 small ones.
Rivals == {1, 2}
RivalChunk(address, block) ==
  [j \in 1..DATALEN |-> UploadChunk(block)[j] + 32 * (address - 1)]
RivalUpload(address, n) == [i \in 1..n |-> Upload(n)[i] + 32 * (address - 1)]

RecvRival(P, D, Y, E, N) ==
  \E address \in P, socket \in open, env \in E, len \in Y :
    \E block \in Blocks(address, socket, D) :
      /\ Uploadable(address, socket)
      /\ Receive(address, socket, DataMsg(block, Take(RivalChunk(address, block), len)), env, N)

InitRace ==
  /\ InitServer
  /\ fs = <<>>

NextRace ==
  \/ RecvRequest(Rivals, {Request(WRQ, path_g, str_octet)}, PlainEnvs, Cardinality(Rivals))
  \/ RecvRival(Rivals, {1}, {1, DATALEN}, PlainEnvs, Cardinality(Rivals))
  \/ AckTimer

SpecRace == InitRace /\ [][NextRace]_vars

\* Downloads and uploads whose peer never sends the datagram that makes
\* progress: it sends the ACK of the block before and of the block after,
\* the DATA already taken, and requests again, at any time; the timers of
\* send_next and get_next expire when they are due.
StallRequests == {Request(RRQ, path_f, str_octet), Request(WRQ, path_g, str_octet)}
StallPeers == {Reader}
StallSessions == 2 * Cardinality(StallPeers)
TimerIds == 0..StallSessions

InitStall ==
  /\ InitServer
  /\ fs = [p \in {path_f} |-> Take(SourceText, MaxFileLen)]

NextStall ==
  \/ RecvRequest(StallPeers, StallRequests, PlainEnvs, StallSessions)
  \/ RecvAck(StallPeers, {-1, 1}, PlainEnvs, StallSessions)
  \/ RecvData(StallPeers, {0}, {DATALEN}, PlainEnvs, StallSessions)
  \/ DataTimer
  \/ AckTimer

\* The expiry of one timer: an armed timer that is not removed comes due.
Expire(id) ==
  /\ id \in DOMAIN timers
  /\ Apply(IF timers[id].kind = "data" THEN data_timer(World, id) ELSE ack_timer(World, id))
  /\ rcvd' = NoDatagram

FairExpiry == \A id \in TimerIds : WF_vars(Expire(id))

SpecStall == InitStall /\ [][NextStall]_vars /\ FairExpiry

\* The same with one session at a time, whose peer may also send the
\* datagram that makes progress before it stops.
NextLinger ==
  \/ RecvRequest(StallPeers, StallRequests, PlainEnvs, 1)
  \/ RecvAck(StallPeers, Around, PlainEnvs, 1)
  \/ RecvData(StallPeers, {0, 1}, {1, DATALEN}, PlainEnvs, 1)
  \/ DataTimer
  \/ AckTimer

SpecLinger == InitStall /\ [][NextLinger]_vars /\ FairExpiry

----------------------------------------------------------------------------
(* Properties.                                                             *)

IsData(bytes) == Len(bytes) >= HDRLEN /\ ntohs(bytes, 0) = DATA
IsAck(bytes) == Len(bytes) >= HDRLEN /\ ntohs(bytes, 0) = ACK
IsError(bytes) == Len(bytes) >= HDRLEN /\ ntohs(bytes, 0) = ERROR
\* The datagrams sent on a socket, oldest first.
Emitted(socket) == [i \in DOMAIN sent[socket] |-> sent[socket][i].bytes]
BlocksOf(packets) == {ntohs(packets[i], 2) : i \in DOMAIN packets}
LastBlock(D) == Len(D) \div DATALEN + 1
PayloadOf(packets, k) ==
  Drop(packets[CHOOSE i \in DOMAIN packets : ntohs(packets[i], 2) = k], HDRLEN)

\* The DATA among packets are blocks 1..m of D, each with its chunk of D.
DeliversPrefix(packets, D) ==
  LET datas == SelectSeq(packets, IsData)
  IN /\ BlocksOf(datas) = 1..Cardinality(BlocksOf(datas))
     /\ \A i \in DOMAIN datas :
          /\ ntohs(datas[i], 2) <= LastBlock(D)
          /\ Drop(datas[i], HDRLEN) = Chunk(D, ntohs(datas[i], 2))
\* The DATA among packets are all the blocks of D, and they concatenate to D.
DeliversAll(packets, D) ==
  LET datas == SelectSeq(packets, IsData)
  IN /\ BlocksOf(datas) = 1..LastBlock(D)
     /\ Concat([k \in 1..LastBlock(D) |-> PayloadOf(datas, k)]) = D
     /\ \A k \in 1..(LastBlock(D) - 1) : Len(PayloadOf(datas, k)) = DATALEN
     /\ Len(PayloadOf(datas, LastBlock(D))) = Len(D) % DATALEN

\* A read served on socket to its end: only DATA went out and the session
\* is gone.
ReadServed(socket) ==
  /\ sent[socket] # <<>>
  /\ \A i \in DOMAIN sent[socket] : IsData(sent[socket][i].bytes)
  /\ \A i \in DOMAIN sessions : sessions[i].socket # socket
\* The engine's read acknowledged to its end.
EngineReadServed == eng.s.opc = RRQ /\ eng.ret = 0 /\ ~eng.s.file.isopen

NewBlocks(socket) ==
  BlocksOf(SelectSeq([i \in DOMAIN sent'[socket] |-> sent'[socket][i].bytes], IsData))
    \ BlocksOf(SelectSeq(Emitted(socket), IsData))
\* The datagrams put on socket in this step.
NewlySent(socket) ==
  [i \in 1..(Len(sent'[socket]) - Len(sent[socket])) |-> sent'[socket][Len(sent[socket]) + i]]
LastData(socket) ==
  LET datas == SelectSeq(Emitted(socket), IsData) IN datas[Len(datas)]

\* The blocks a live RRQ session has emitted are 1..block_num.
BlocksConsecutive ==
  \A i \in DOMAIN sessions :
    sessions[i].opc = RRQ /\ sessions[i].socket # INVALID_SOCKET =>
      BlocksOf(SelectSeq(Emitted(sessions[i].socket), IsData)) = 1..sessions[i].block_num
\* Block 1 first appears on handling an RRQ, block k + 1 on handling an ACK
\* of block k from the session's peer on the session's socket.
NewBlockOnlyOnAck ==
  \A socket \in Sockets : \A k \in NewBlocks(socket) :
    IF k = 1
    THEN ntohs(rcvd'.bytes, 0) = RRQ
    ELSE /\ rcvd'.bytes = AckMsg(k - 1)
         /\ rcvd'.socket = socket
         /\ \A i \in DOMAIN NewlySent(socket) : NewlySent(socket)[i].to = rcvd'.address
\* A timer expiry puts on the wire the last DATA again, or one Timed Out.
TimerOnlyResends ==
  rcvd' = NoDatagram =>
    \A socket \in Sockets :
      /\ NewBlocks(socket) = {}
      /\ Len(NewlySent(socket)) <= 1
      /\ \A i \in DOMAIN NewlySent(socket) :
           \/ NewlySent(socket)[i].bytes = LastData(socket)
           \/ NewlySent(socket)[i].bytes = timed_out

\* C2: in an RRQ session DATA block k + 1 is first emitted on an ACK of
\* block k, a timer expiry only re-emits the current block, and so the
\* blocks emitted are 1, 2, 3, ... up to the session's current block.
C2_StopAndWait ==
  /\ []BlocksConsecutive
  /\ [][NewBlockOnlyOnAck /\ TimerOnlyResends]_vars
\* A session at block 2 that has re-sent a block.
C2_Witness ==
  \E i \in DOMAIN sessions :
    /\ sessions[i].opc = RRQ /\ sessions[i].block_num = 2
    /\ Len(sent[sessions[i].socket]) >= 3

\* How many times DATA block k went out on socket.
Emissions(socket, k) ==
  Cardinality({j \in DOMAIN sent[socket] :
                 IsData(sent[socket][j].bytes) /\ ntohs(sent[socket][j].bytes, 2) = k})
\* A retransmission timer at retries r has seen the current block go out
\* r + 1 times, and r is at most MAX_RETRIES.
ResendsCounted ==
  \A id \in DOMAIN timers :
    timers[id].kind = "data" =>
      /\ timers[id].retries <= MAX_RETRIES
      /\ Emissions(timers[id].socket, sessions[timers[id].siter].block_num)
           = timers[id].retries + 1
\* Nothing follows a Timed Out on a socket.
TimedOutIsLast ==
  \A socket \in Sockets : \A j \in DOMAIN sent[socket] :
    sent[socket][j].bytes = timed_out => j = Len(sent[socket])
\* An RRQ session leaves the table on the ACK of its current block, or on
\* the expiry that follows MAX_RETRIES re-sends, with one Timed Out.
ReadEndsOnAckOrTimeout ==
  \A i \in DOMAIN sessions \ DOMAIN sessions' :
    sessions[i].opc = RRQ =>
      \/ rcvd'.bytes = AckMsg(sessions[i].block_num)
      \/ /\ rcvd' = NoDatagram
         /\ Emissions(sessions[i].socket, sessions[i].block_num) = MAX_RETRIES + 1
         /\ NewlySent(sessions[i].socket) = <<[to |-> sessions[i].key, bytes |-> timed_out]>>

\* C3: while no ACK of the current block arrives, the retransmission timer
\* re-sends the current DATA MAX_RETRIES times; the next expiry sends Timed
\* Out (code 0) and removes the session, and no DATA follows.
C3_FiveResendsThenTimedOut ==
  /\ [](ResendsCounted /\ TimedOutIsLast)
  /\ [][ReadEndsOnAckOrTimeout]_vars
\* The timer by itself: re-sends counted, Timed Out last.
C3_TimerCounts == ResendsCounted /\ TimedOutIsLast
\* A session ended by Timed Out after six emissions of its block.
C3_TimedOutReached ==
  \E socket \in Sockets \ {LISTEN} :
    /\ sent[socket] # <<>>
    /\ sent[socket][Len(sent[socket])].bytes = timed_out
    /\ Emissions(socket, 1) = MAX_RETRIES + 1

\* The step handles the DATA that session s expects next, with a payload
\* shorter than DATALEN, while the staging file of s is open.
LastDataAccepted(s) ==
  /\ s.opc = WRQ /\ s.file.isopen
  /\ IsData(rcvd'.bytes)
  /\ rcvd'.address = s.key /\ rcvd'.socket = s.socket
  /\ ntohs(rcvd'.bytes, 2) = (s.block_num + 1) % U16
  /\ Len(rcvd'.bytes) - HDRLEN < DATALEN
\* The payloads of blocks 1..n of an upload whose block n is rcvd'.
UploadedThrough ==
  Upload((ntohs(rcvd'.bytes, 2) - 1) * DATALEN + Len(rcvd'.bytes) - HDRLEN)
DriverCommitsPayloads ==
  \A i \in DOMAIN sessions :
    LastDataAccepted(sessions[i]) =>
      /\ Exists(fs', sessions[i].target)
      /\ fs'[sessions[i].target] = UploadedThrough
EngineCommitsPayloads ==
  eng.ret = 0 /\ LastDataAccepted(eng.s) =>
    /\ Exists(fs', eng.s.target)
    /\ fs'[eng.s.target] = UploadedThrough

\* C4: when a WRQ session accepts block n, the first with a payload shorter
\* than DATALEN, after blocks 1..n-1, the file at target is the payloads of
\* blocks 1..n in block order, verbatim, whatever duplicate or out-of-order
\* DATA came in between.
C4_UploadVerbatim == [][DriverCommitsPayloads /\ EngineCommitsPayloads]_vars
\* The same of handle_data alone.
C4_EngineUploadVerbatim == [][EngineCommitsPayloads]_vars
\* The engine has committed an upload of two blocks.
C4_EngineCommitted ==
  /\ eng.s.opc = WRQ /\ eng.ret = 0 /\ ~eng.s.file.isopen /\ eng.s.block_num = 2
  /\ Exists(fs, path_g) /\ fs[path_g] = Upload(Len(fs[path_g]))
  /\ Len(fs[path_g]) > DATALEN

\* The file at path p as an option: <<content>>, or <<>> when p is absent.
FileAt(f, p) == IF Exists(f, p) THEN <<f[p]>> ELSE <<>>
IsPrefix(a, b) == Len(a) <= Len(b) /\ SubSeq(b, 1, Len(a)) = a
\* The step handles a WRQ for target.
WriteRequested(target) ==
  /\ Len(rcvd'.bytes) >= HDRLEN /\ ntohs(rcvd'.bytes, 0) = WRQ
  /\ parse_request(rcvd'.bytes).ok
  /\ parse_request(rcvd'.bytes).filename = target
\* The step is the commit of session s: the expected short DATA is handled
\* and the staging file of s, with all it held, is now at target.
Committed(s, target) ==
  /\ LastDataAccepted(s) /\ s.target = target
  /\ Exists(fs, s.tmp) /\ ~Exists(fs', s.tmp)
  /\ Exists(fs', target) /\ IsPrefix(fs[s.tmp], fs'[target])
CommittedBySome(target) ==
  \/ \E i \in DOMAIN sessions : Committed(sessions[i], target)
  \/ eng.ret = 0 /\ Committed(eng.s, target)
\* The same with the content the claim names: the payloads of blocks 1..n.
CommittedUpload(target) ==
  /\ CommittedBySome(target)
  /\ fs'[target] = UploadedThrough

\* C5 as stated: in every step the file at target keeps its existence and
\* content, or the step is a commit and target holds the complete upload.
C5_TargetUnchangedOrComplete ==
  [][FileAt(fs', path_g) = FileAt(fs, path_g) \/ CommittedUpload(path_g)]_vars
\* C5, amended: in every step the file at target keeps its existence and
\* content, or it is created empty by the staging of a WRQ for it, or the
\* step is a commit and target holds all that the staging file held.
C5_TargetTouchedOrCommitted ==
  [][\/ FileAt(fs', path_g) = FileAt(fs, path_g)
     \/ /\ WriteRequested(path_g)
        /\ FileAt(fs, path_g) = <<>> /\ FileAt(fs', path_g) = <<<<>>>>
     \/ CommittedBySome(path_g)]_vars
\* An upload under way with bytes staged, the target still as it was.
C5_Witness ==
  \E i \in DOMAIN sessions :
    /\ sessions[i].opc = WRQ /\ sessions[i].file.isopen
    /\ sessions[i].block_num >= 1 /\ Exists(fs, sessions[i].tmp)
    /\ fs[sessions[i].tmp] # <<>>
    /\ FileAt(fs, path_g) = <<OldContent>>

\* The step handles an RRQ or WRQ datagram routed to a session whose
\* operation is set.
RequestToRunning ==
  /\ Len(rcvd'.bytes) >= HDRLEN
  /\ ntohs(rcvd'.bytes, 0) \in {RRQ, WRQ}
  /\ \E i \in DOMAIN sessions :
       /\ sessions[i].key = rcvd'.address /\ sessions[i].socket = rcvd'.socket
       /\ sessions[i].opc # 0

\* C6: an RRQ or WRQ routed to a session whose operation is set is ignored:
\* nothing is sent, no session, timer or file changes, and the socket is
\* read again, so the transfer goes on as if the request had not arrived.
C6_RequestToRunningIgnored ==
  [][RequestToRunning =>
       /\ UNCHANGED <<sessions, timers, fs, count, nsock, sent>>
       /\ rcvd'.socket \in open']_vars
\* A running RRQ session has just been sent a WRQ on its socket, and a
\* running WRQ session exists beside it.
C6_Witness ==
  /\ ntohs(rcvd.bytes \o <<0, 0>>, 0) = WRQ
  /\ \E i \in DOMAIN sessions :
       /\ sessions[i].key = rcvd.address /\ sessions[i].socket = rcvd.socket
       /\ sessions[i].opc = RRQ
  /\ \E j \in DOMAIN sessions : sessions[j].opc = WRQ

\* The step handles a datagram read on an ephemeral socket that matches no
\* session.
StrayUnmatched ==
  /\ rcvd'.socket \in Sockets \ {LISTEN}
  /\ Matching(World, rcvd'.address, rcvd'.socket) = {}

\* C7: a datagram on a socket other than the listening one that matches no
\* session is answered with Unknown TID on that socket, and no session is
\* created and no socket opened, whatever its opcode.
C7_UnknownTidOnStray ==
  [][StrayUnmatched =>
       /\ sent'[rcvd'.socket] =
            Append(sent[rcvd'.socket], [to |-> rcvd'.address, bytes |-> unknown_tid])
       /\ DOMAIN sessions' = DOMAIN sessions
       /\ nsock' = nsock]_vars

\* The sessions bound to the socket of the datagram handled in this step,
\* under another peer than its sender.
Bystanders ==
  {i \in DOMAIN sessions :
     sessions[i].socket = rcvd'.socket /\ sessions[i].key # rcvd'.address}

\* C8: a datagram on a session's socket from another peer than the
\* session's changes nothing of the session: its state, its timer with the
\* retry count and its staging file stay, and its socket is read again.
C8_StrayLeavesSession ==
  [][\A i \in Bystanders :
       /\ i \in DOMAIN sessions' /\ sessions'[i] = sessions[i]
       /\ sessions[i].timer \in DOMAIN timers'
       /\ timers'[sessions[i].timer] = timers[sessions[i].timer]
       /\ FileAt(fs', sessions[i].tmp) = FileAt(fs, sessions[i].tmp)
       /\ sent'[sessions[i].socket] = sent[sessions[i].socket]
       /\ sessions[i].socket \in open']_vars
\* A stranger's datagram has just been handled on the socket of a reader
\* that has re-sent its second block; the reader's session is in place.
C8_Witness ==
  /\ rcvd.address = Stranger
  /\ \E i \in DOMAIN sessions :
       /\ sessions[i].key = Reader /\ sessions[i].socket = rcvd.socket
       /\ sessions[i].block_num = 2
       /\ timers[sessions[i].timer].retries >= 1

\* C9: every session in the table is bound to a socket of its own, not the
\* listening one, so at most one session matches a (peer, socket) pair; and
\* DATA and ACK go out on the session's socket only, to the session's
\* peer, never on the listening socket.
C9_OwnSocket ==
  /\ \A i \in DOMAIN sessions :
       /\ sessions[i].socket \in Sockets \ {LISTEN}
       /\ \A j \in DOMAIN sessions : j # i => sessions[j].socket # sessions[i].socket
       /\ \A k \in DOMAIN sent[sessions[i].socket] :
            sent[sessions[i].socket][k].to = sessions[i].key
  /\ \A address \in Peers, socket \in Sockets :
       Cardinality(Matching(World, address, socket)) <= 1
  /\ \A k \in DOMAIN sent[LISTEN] :
       ~IsData(sent[LISTEN][k].bytes) /\ ~IsAck(sent[LISTEN][k].bytes)
\* A reader and an uploader of the same peer, each on its own socket, each
\* having sent from it.
C9_Witness ==
  \E i, j \in DOMAIN sessions :
    /\ sessions[i].opc = RRQ /\ sessions[j].opc = WRQ
    /\ sessions[i].key = sessions[j].key
    /\ sent[sessions[i].socket] # <<>> /\ sent[sessions[j].socket] # <<>>

\* The step handles the ACK of block U16 - 1 for the read session s, whose
\* last DATA was full.
AckAtWrap(s) ==
  /\ s.opc = RRQ /\ s.block_num = U16 - 1 /\ Len(s.buffer) >= DATAMSG_MAXLEN
  /\ rcvd'.address = s.key /\ rcvd'.socket = s.socket
  /\ rcvd'.bytes = AckMsg(U16 - 1)
\* The step handles DATA block 0 for the upload session s, whose last
\* accepted block is U16 - 1.
DataAtWrap(s) ==
  /\ s.opc = WRQ /\ s.block_num = U16 - 1 /\ s.file.isopen
  /\ rcvd'.address = s.key /\ rcvd'.socket = s.socket
  /\ IsData(rcvd'.bytes) /\ ntohs(rcvd'.bytes, 2) = 0
\* The payload of rcvd' now follows what s had staged, in the staging file
\* or, after a commit, at target.
PayloadStaged(s) ==
  \/ /\ Exists(fs', s.tmp)
     /\ IsPrefix(fs[s.tmp] \o Drop(rcvd'.bytes, HDRLEN), fs'[s.tmp])
  \/ /\ ~Exists(fs', s.tmp) /\ Exists(fs', s.target)
     /\ IsPrefix(fs[s.tmp] \o Drop(rcvd'.bytes, HDRLEN), fs'[s.target])
DriverWraps ==
  \A i \in DOMAIN sessions :
    /\ AckAtWrap(sessions[i]) =>
         /\ i \in DOMAIN sessions' /\ sessions'[i].block_num = 0
         /\ Len(NewlySent(sessions[i].socket)) = 1
         /\ IsData(NewlySent(sessions[i].socket)[1].bytes)
         /\ ntohs(NewlySent(sessions[i].socket)[1].bytes, 2) = 0
    /\ DataAtWrap(sessions[i]) =>
         /\ i \in DOMAIN sessions' /\ sessions'[i].block_num = 0
         /\ PayloadStaged(sessions[i])
         /\ NewlySent(sessions[i].socket) = <<[to |-> sessions[i].key, bytes |-> AckMsg(0)]>>
EngineWraps ==
  /\ eng.ret = 0 /\ AckAtWrap(eng.s) =>
       /\ eng'.ret = 0 /\ eng'.s.block_num = 0
       /\ Len(eng'.out) = Len(eng.out) + 1
       /\ ntohs(eng'.out[Len(eng'.out)], 2) = 0
  /\ eng.ret = 0 /\ DataAtWrap(eng.s) =>
       /\ eng'.ret = 0 /\ eng'.s.block_num = 0
       /\ PayloadStaged(eng.s)

\* C10: block numbers wrap modulo 2^16: a read at block 65535 whose last
\* DATA was full emits DATA block 0 on the matching ACK, and an upload whose
\* last accepted block is 65535 accepts DATA block 0: it writes the
\* payload, sets its block to 0 and acknowledges 0.
C10_BlocksWrap == [][DriverWraps /\ EngineWraps]_vars
\* The same of handle_ack and handle_data alone.
C10_EngineBlocksWrap == [][EngineWraps]_vars
\* The engine's read and the engine's upload are past the wrap.
C10_EngineReadWrapped ==
  /\ eng.s.opc = RRQ /\ eng.s.block_num = 0 /\ eng.out # <<>>
  /\ IsData(eng.out[Len(eng.out)]) /\ ntohs(eng.out[Len(eng.out)], 2) = 0
C10_EngineUploadWrapped ==
  /\ eng.s.opc = WRQ /\ eng.s.block_num = 0 /\ eng.ret = 0
  /\ rcvd.bytes # <<>> /\ ntohs(rcvd.bytes \o <<0, 0, 0, 0>>, 2) = 0
\* The driver's read is past the wrap.
C10_DriverReadWrapped ==
  \E i \in DOMAIN sessions : sessions[i].opc = RRQ /\ sessions[i].block_num = 0

\* The step handles an ACK from the peer of session s on the socket of s
\* (the engine's session is handed its ACKs by its caller).
AckHandledFor(s) ==
  /\ s.opc = RRQ
  /\ IsAck(rcvd'.bytes)
  /\ rcvd'.address = s.key /\ rcvd'.socket = s.socket
AckedBlock == ntohs(rcvd'.bytes, 2)
LastDataShort(s) == Len(s.buffer) < DATAMSG_MAXLEN

\* An ACK of another block than the session's leaves the session, its timer
\* and retry count, and the filesystem as they were, and sends nothing.
DriverIgnoresOtherAck(i) ==
  AckHandledFor(sessions[i]) /\ AckedBlock # sessions[i].block_num =>
    /\ i \in DOMAIN sessions' /\ sessions'[i] = sessions[i]
    /\ timers' = timers
    /\ fs' = fs
    /\ sent' = sent
EngineIgnoresOtherAck ==
  eng.ret = 0 /\ AckHandledFor(eng.s) /\ AckedBlock # eng.s.block_num =>
    /\ eng'.ret = 0 /\ eng'.s = eng.s /\ eng'.out = eng.out
    /\ fs' = fs

\* C11: handling an ACK whose block differs from the block of its RRQ
\* session succeeds and changes nothing: block, buffer, file, timer and
\* retry count stay, and no DATA is emitted.
C11_OtherAckIgnored ==
  [][(\A i \in DOMAIN sessions : DriverIgnoresOtherAck(i)) /\ EngineIgnoresOtherAck]_vars
\* The same where the session's last DATA was full, and of handle_ack alone.
C11_OtherAckIgnoredWhileFull ==
  [][(\A i \in DOMAIN sessions :
        ~LastDataShort(sessions[i]) => DriverIgnoresOtherAck(i))
     /\ EngineIgnoresOtherAck]_vars
\* A session at block 2 has just been handed the ACK of block 1 again.
C11_RepeatedAckReached ==
  /\ rcvd.bytes = AckMsg(1)
  /\ \/ \E i \in DOMAIN sessions :
          /\ sessions[i].opc = RRQ /\ sessions[i].block_num = 2
          /\ sessions[i].socket = rcvd.socket
     \/ /\ rcvd.socket = INVALID_SOCKET
        /\ eng.s.opc = RRQ /\ eng.s.block_num = 2 /\ eng.ret = 0

\* An RRQ session ends on an ACK only when the ACK is of its block and its
\* last DATA was short; an ACK of another block after the short DATA leaves
\* the session and its retransmission timer in place.
DriverCompletesOnLastAck(i) ==
  AckHandledFor(sessions[i]) =>
    /\ i \notin DOMAIN sessions' =>
         AckedBlock = sessions[i].block_num /\ LastDataShort(sessions[i])
    /\ LastDataShort(sessions[i]) /\ AckedBlock # sessions[i].block_num =>
         /\ i \in DOMAIN sessions'
         /\ sessions[i].timer \in DOMAIN timers'
         /\ timers'[sessions[i].timer] = timers[sessions[i].timer]
EngineCompletesOnLastAck ==
  eng.ret = 0 /\ AckHandledFor(eng.s) /\ eng.s.file.isopen /\ ~eng'.s.file.isopen =>
    AckedBlock = eng.s.block_num /\ LastDataShort(eng.s)

\* C12: an RRQ session is complete only upon the ACK of its last sent block
\* received after a short DATA; any other ACK after the short DATA does not
\* end the transfer, and the short DATA stays subject to retransmission.
C12_CompleteOnlyOnLastAck ==
  [][(\A i \in DOMAIN sessions : DriverCompletesOnLastAck(i))
     /\ EngineCompletesOnLastAck]_vars
\* The same of handle_ack alone.
C12_EngineCompleteOnlyOnLastAck == [][EngineCompletesOnLastAck]_vars
\* The engine's read, its short DATA sent, has been handed the ACK of an
\* earlier block and is still open.
C12_EngineStillOpen ==
  /\ eng.s.opc = RRQ /\ eng.ret = 0 /\ eng.s.file.isopen
  /\ LastDataShort(eng.s) /\ eng.s.block_num = 2
  /\ rcvd.bytes = AckMsg(1)

\* The step handles a DATA from the peer of session s on the socket of s.
DataHandledFor(s) ==
  /\ s.opc = WRQ
  /\ IsData(rcvd'.bytes)
  /\ rcvd'.address = s.key /\ rcvd'.socket = s.socket
DataBlock == ntohs(rcvd'.bytes, 2)
IsDuplicate(s) == DataBlock = s.block_num
IsOutOfOrder(s) == DataBlock # s.block_num /\ DataBlock # (s.block_num + 1) % U16

DriverReAcksDuplicate(i) ==
  LET s == sessions[i]
  IN /\ DataHandledFor(s) /\ IsDuplicate(s) =>
          /\ i \in DOMAIN sessions' /\ sessions'[i].block_num = s.block_num
          /\ fs' = fs
          /\ NewlySent(s.socket) = <<[to |-> s.key, bytes |-> AckMsg(s.block_num)]>>
     /\ DataHandledFor(s) /\ IsOutOfOrder(s) =>
          /\ i \in DOMAIN sessions' /\ sessions'[i].block_num = s.block_num
          /\ fs' = fs
          /\ sent' = sent
EngineSkipsUnexpected ==
  eng.ret = 0 /\ DataHandledFor(eng.s) /\ (IsDuplicate(eng.s) \/ IsOutOfOrder(eng.s)) =>
    /\ eng'.ret = 0 /\ eng'.s = eng.s
    /\ fs' = fs

\* C13: in a WRQ session a DATA of the last accepted block writes nothing,
\* leaves the block number, and is answered with the ACK of that block
\* again; a DATA of a block that is neither the last accepted nor the next
\* writes nothing, leaves the block number and is not answered.
C13_DuplicateReAcked ==
  [][(\A i \in DOMAIN sessions : DriverReAcksDuplicate(i)) /\ EngineSkipsUnexpected]_vars
\* An upload at block 1 with bytes staged has just been handed DATA block 1
\* again and has sent ACK 1 twice.
C13_Witness ==
  \E i \in DOMAIN sessions :
    /\ sessions[i].opc = WRQ /\ sessions[i].block_num = 1 /\ sessions[i].file.isopen
    /\ rcvd.socket = sessions[i].socket /\ rcvd.address = sessions[i].key
    /\ Len(rcvd.bytes) = DATAMSG_MAXLEN /\ ntohs(rcvd.bytes, 0) = DATA
    /\ ntohs(rcvd.bytes, 2) = 1
    /\ Exists(fs, sessions[i].tmp) /\ fs[sessions[i].tmp] # <<>>
    /\ Cardinality({k \in DOMAIN sent[rcvd.socket] :
                      sent[rcvd.socket][k].bytes = AckMsg(1)}) = 2

\* The step is a call of handle_request, and the request it was given.
EngineCalled == rcvd'.socket = INVALID_SOCKET /\ rcvd'.bytes # <<>> /\ eng = EngineIdle
CalledOpc == ntohs(rcvd'.bytes, 0)
CalledMode == rcvd'.bytes[Len(rcvd'.bytes)]
CalledName == SubSeq(rcvd'.bytes, 3, Len(rcvd'.bytes) - 2)
EngineUntouched ==
  /\ eng'.s = eng.s /\ eng'.s.opc = 0 /\ eng'.s.file.null /\ eng'.s.block_num = 0
  /\ fs' = fs /\ count' = count

\* C14: handle_request returns Illegal operation whenever the opcode is not
\* RRQ or WRQ, or the mode is 0, or the request is an RRQ in mail mode, and
\* then leaves the session untouched: no operation, no file, no temporary,
\* block 0.
C14_IllegalRequestRejected ==
  [][EngineCalled /\ (\/ CalledOpc \notin {RRQ, WRQ}
                      \/ CalledMode = 0
                      \/ CalledOpc = RRQ /\ CalledMode = MAIL) =>
       eng'.ret = ILLEGAL_OPERATION /\ EngineUntouched]_vars
\* The same for the opcodes handle_request tests for: DATA and ACK.
C14_DataAckRejected ==
  [][EngineCalled /\ (\/ CalledOpc \in {DATA, ACK}
                      \/ CalledMode = 0
                      \/ CalledOpc = RRQ /\ CalledMode = MAIL) =>
       eng'.ret = ILLEGAL_OPERATION /\ EngineUntouched]_vars
\* handle_request has rejected an RRQ in mail mode.
C14_MailReadRejected ==
  /\ rcvd.socket = INVALID_SOCKET /\ rcvd.bytes # <<>>
  /\ ntohs(rcvd.bytes \o <<0, 0>>, 0) = RRQ /\ rcvd.bytes[Len(rcvd.bytes)] = MAIL
  /\ eng.ret = ILLEGAL_OPERATION /\ eng.s = session(0)

\* The code the claim gives the failed staging of a request of opcode opc
\* and mode number mode for name, on the filesystem f.
SourceMissing(f, name) == ~Exists(f, name) \/ ParentMissing(name)
StagingCode(f, opc, mode, name) ==
  IF opc = RRQ /\ SourceMissing(f, name) THEN FILE_NOT_FOUND
  ELSE IF opc = WRQ /\ mode = MAIL /\ name \notin MailUsers THEN NO_SUCH_USER
  ELSE ACCESS_VIOLATION
StagingCodes == {FILE_NOT_FOUND, NO_SUCH_USER, ACCESS_VIOLATION}

\* handle_request, given an RRQ or WRQ it does not reject, fails to stage.
EngineStagingFailed ==
  /\ EngineCalled
  /\ CalledOpc \in {RRQ, WRQ} /\ CalledMode # 0
  /\ ~(CalledOpc = RRQ /\ CalledMode = MAIL)
  /\ eng'.s.file.null
\* The driver answers a request with the error of a failed staging.
DriverStagingFailed ==
  /\ rcvd'.socket = LISTEN
  /\ parse_request(rcvd'.bytes \o <<NUL>>).ok
  /\ nsock' = nsock + 1
  /\ sent'[nsock'] # <<>>
  /\ IsError(sent'[nsock'][1].bytes)
  /\ ntohs(sent'[nsock'][1].bytes, 2) \in StagingCodes
EngineStagingCodes ==
  EngineStagingFailed =>
    eng'.ret = StagingCode(fs, CalledOpc, CalledMode, CalledName)
DriverStagingCodes ==
  DriverStagingFailed =>
    LET request == parse_request(rcvd'.bytes)
    IN sent'[nsock'] =
         <<[to |-> rcvd'.address,
            bytes |-> error_buffers(StagingCode(fs, request.opc, request.mode,
                                                request.filename))]>>

\* C15: a failed staging yields File not found exactly for an RRQ whose
\* source is missing, No such user exactly for a mail WRQ whose user has no
\* directory, and Access violation for every other failure.
C15_StagingCodes == [][EngineStagingCodes /\ DriverStagingCodes]_vars
\* The same of server::rrq and server::wrq alone.
C15_DriverStagingCodes == [][DriverStagingCodes]_vars
\* The driver has answered a WRQ into a missing directory.
C15_DriverMissingDirectory ==
  /\ rcvd.socket = LISTEN /\ rcvd.bytes = Request(WRQ, path_n, str_octet)
  /\ sent[1] = <<[to |-> rcvd.address, bytes |-> access_violation]>>
\* handle_request has failed to stage a mail WRQ for an unknown user.
C15_EngineNoSuchUser ==
  /\ rcvd.socket = INVALID_SOCKET /\ rcvd.bytes = ArgsOf([opc |-> WRQ, mode |-> MAIL, filename |-> user_v])
  /\ eng.ret = NO_SUCH_USER

\* The session that serves the datagram of this step: the one matching its
\* sender and socket, else a fresh one on a socket created for it.
Served == Matching(World, rcvd'.address, rcvd'.socket)
\* The datagram of this step is an ACK for a session that is not reading,
\* or a DATA for a session that is not writing.
WrongOperation(opc) ==
  \/ IsAck(rcvd'.bytes) /\ opc # RRQ
  \/ IsData(rcvd'.bytes) /\ opc # WRQ
DriverAnswersUnknownTid ==
  rcvd'.socket \in Sockets =>
    /\ \A i \in Served :
         WrongOperation(sessions[i].opc) =>
           /\ i \notin DOMAIN sessions'
           /\ NewlySent(rcvd'.socket) = <<[to |-> sessions[i].key, bytes |-> unknown_tid]>>
    /\ Served = {} /\ WrongOperation(0) =>
         /\ DOMAIN sessions' = DOMAIN sessions
         /\ nsock' = nsock + 1
         /\ sent'[nsock'] = <<[to |-> rcvd'.address, bytes |-> unknown_tid]>>
EngineYieldsUnknownTid ==
  rcvd'.socket = INVALID_SOCKET /\ eng.ret = 0 /\ WrongOperation(eng.s.opc) =>
    /\ eng'.ret = UNKNOWN_TID
    /\ eng'.s = eng.s /\ eng'.out = eng.out
    /\ fs' = fs

\* C16: an ACK for a session whose operation is not RRQ, and a DATA for a
\* session whose operation is not WRQ, a session just created for the
\* datagram included, yield Unknown TID with block, buffer and file
\* unchanged; the driver sends the Unknown TID packet and removes the
\* session.
C16_UnknownTid == [][DriverAnswersUnknownTid /\ EngineYieldsUnknownTid]_vars
\* An upload under way has been ended by an ACK from its peer, answered
\* Unknown TID.
C16_Witness ==
  /\ ntohs(rcvd.bytes \o <<0, 0>>, 0) = ACK
  /\ rcvd.socket \in Sockets \ {LISTEN}
  /\ Len(sent[rcvd.socket]) = 2
  /\ sent[rcvd.socket][1].bytes = AckMsg(0)
  /\ sent[rcvd.socket][2] = [to |-> rcvd.address, bytes |-> unknown_tid]
  /\ \A i \in DOMAIN sessions : sessions[i].socket # rcvd.socket

\* The non-zero codes handle_request, handle_ack and handle_data return.
EngineCodes ==
  {FILE_NOT_FOUND, ACCESS_VIOLATION, DISK_FULL, ILLEGAL_OPERATION, UNKNOWN_TID,
   NO_SUCH_USER}
\* server::error called for session i with code: one ERROR packet with the
\* code goes to the peer on the session's socket, and the session, its
\* timer, its temporary and the reading of its socket are gone.
ErrorIsFatal(i, code) ==
  LET s == sessions[i]
      W == error(World, s.socket, i, code)
      new == SubSeq(W.sent[s.socket], Len(sent[s.socket]) + 1, Len(W.sent[s.socket]))
  IN /\ Len(new) = 1
     /\ new[1].to = s.key
     /\ IsError(new[1].bytes) /\ ntohs(new[1].bytes, 2) = code
     /\ \A k \in Sockets \ {s.socket} : W.sent[k] = sent[k]
     /\ i \notin DOMAIN W.sessions
     /\ s.timer \notin DOMAIN W.timers
     /\ s.socket \notin W.open
     /\ ~Exists(W.fs, s.tmp)
\* The result the engine gives the ACK or DATA of this step on session s.
EngineResult(s) ==
  IF IsAck(rcvd'.bytes) THEN handle_ack(ntohs(rcvd'.bytes, 2), s, fs).ret
  ELSE IF IsData(rcvd'.bytes) THEN handle_data(rcvd'.bytes, s, fs).ret
  ELSE 0
\* A step whose ACK or DATA has a non-zero result on the session it is
\* served by ends the session with the packet of that result.
ResultIsFatal ==
  \A i \in Served :
    EngineResult(sessions[i]) # 0 =>
      /\ NewlySent(rcvd'.socket) =
           <<[to |-> sessions[i].key, bytes |-> error_buffers(EngineResult(sessions[i]))]>>
      /\ i \notin DOMAIN sessions'
      /\ sessions[i].timer \notin DOMAIN timers'
\* A socket on which an ERROR packet goes out carries nothing else in the
\* step, is read no more and has no session and no timer left.
ErrorEndsSocket ==
  \A k \in Sockets :
    (\E j \in DOMAIN NewlySent(k) : IsError(NewlySent(k)[j].bytes)) =>
      /\ Len(NewlySent(k)) = 1
      /\ k \notin open'
      /\ \A i \in DOMAIN sessions' : sessions'[i].socket # k
      /\ \A t \in DOMAIN timers' : timers'[t].socket # k
\* Nothing is sent on a socket after an ERROR packet.
SilentAfterError ==
  \A k \in Sockets :
    sent[k] # <<>> /\ IsError(sent[k][Len(sent[k])].bytes) => sent'[k] = sent[k]

\* C17: every non-zero engine result is fatal for its session: the driver
\* sends exactly one ERROR packet with that code to the session's peer and
\* cleans up; the session, its timer and its file are gone and nothing more
\* is sent for it.
C17_ErrorFatal ==
  /\ [](\A i \in DOMAIN sessions : \A code \in EngineCodes : ErrorIsFatal(i, code))
  /\ [][ResultIsFatal /\ ErrorEndsSocket /\ SilentAfterError]_vars
\* An upload was ended by No space available, and a datagram has since been
\* handled on another socket.
C17_Witness ==
  \E k \in Sockets \ {LISTEN} :
    /\ sent[k] # <<>> /\ sent[k][Len(sent[k])].bytes = disk_full
    /\ k \notin open
    /\ rcvd.socket \in Sockets \ {k}
    /\ \E i \in DOMAIN sessions : sessions[i].opc # 0

\* The datagram of this step is an ACK or DATA shorter than its header, or
\* a DATA longer than the read buffer.
MalformedHandled ==
  /\ rcvd'.socket \in Sockets
  /\ Len(rcvd'.bytes) >= 2 /\ ntohs(rcvd'.bytes, 0) \in {ACK, DATA}
  /\ \/ Len(rcvd'.bytes) < HDRLEN
     \/ ntohs(rcvd'.bytes, 0) = DATA /\ Len(rcvd'.bytes) > BUFSIZE
\* No file is created or written in this step.
NothingWritten == \A p \in DOMAIN fs' : Exists(fs, p) /\ fs'[p] = fs[p]

\* C18: a DATA or ACK shorter than 4 bytes, and a DATA cut on receive
\* because its payload exceeds a full block, is answered with Illegal
\* operation and ends the session it was routed to; nothing is written.
C18_MalformedRejected ==
  [][MalformedHandled =>
       \A i \in Served :
         /\ i \notin DOMAIN sessions'
         /\ NewlySent(rcvd'.socket) =
              <<[to |-> sessions[i].key, bytes |-> illegal_operation]>>
         /\ NothingWritten]_vars

\* A read at block 2 whose second DATA went out on an ACK of two bytes, the
\* block number taken from the bytes after it in the read buffer.
C18_ShortAckAdvances ==
  /\ rcvd.bytes = htons(ACK)
  /\ \E i \in DOMAIN sessions :
       /\ sessions[i].opc = RRQ /\ sessions[i].block_num = 2
       /\ sessions[i].socket = rcvd.socket
       /\ Len(sent[rcvd.socket]) = 2
\* An upload has staged a DATA that was cut to the read buffer.
C18_CutDataStaged ==
  /\ Len(rcvd.bytes) > BUFSIZE
  /\ \E i \in DOMAIN sessions :
       /\ sessions[i].opc = WRQ /\ sessions[i].socket = rcvd.socket
       /\ sessions[i].block_num = ntohs(rcvd.bytes, 2)
       /\ Exists(fs, sessions[i].tmp) /\ fs[sessions[i].tmp] # <<>>

----------------------------------------------------------------------------
(* Netascii reads (SpecNetascii).                                          *)

\* The payloads of the DATA among packets, in the order they went out.
Stream(packets) ==
  LET datas == SelectSeq(packets, IsData)
  IN Concat([i \in DOMAIN datas |-> Drop(datas[i], HDRLEN)])
\* Every LF of t follows a CR, every NUL of t follows a CR, and every CR
\* of t is followed by LF or NUL; a CR may end t only while bytes are
\* still to come.
Canonical(t, complete) ==
  \A i \in DOMAIN t :
    /\ t[i] \in {LF, NUL} => i > 1 /\ t[i - 1] = CR
    /\ t[i] = CR => IF i < Len(t) THEN t[i + 1] \in {LF, NUL} ELSE ~complete
\* packets holds a DATA whose payload ends with CR, the byte after it
\* opening the payload of the next DATA.
CrEndsPacket(packets) ==
  \E i \in DOMAIN packets :
    /\ i < Len(packets)
    /\ Len(packets[i]) = DATAMSG_MAXLEN /\ packets[i][DATAMSG_MAXLEN] = CR
    /\ Len(packets[i + 1]) > HDRLEN

\* C19: the payloads of a netascii RRQ, concatenated, have a CR before
\* every LF, an LF or a NUL after every CR, and no NUL except after a CR,
\* within a packet and from one packet to the next, for every source text.
C19_NetasciiCanonical ==
  /\ \A socket \in Sockets \ {LISTEN} :
       Canonical(Stream(Emitted(socket)), ReadServed(socket))
  /\ Canonical(Stream(eng.out), EngineReadServed)
\* The driver or the engine has served a text to its end with a CR
\* as the last byte of one packet and its LF or NUL opening the next.
C19_Witness ==
  \/ \E socket \in Sockets \ {LISTEN} :
       ReadServed(socket) /\ CrEndsPacket(Emitted(socket))
  \/ EngineReadServed /\ CrEndsPacket(eng.out)

\* src with its leading NUL bytes removed.
RECURSIVE SkipNul(_)
SkipNul(src) ==
  IF src # <<>> /\ Head(src) = NUL THEN SkipNul(Tail(src)) ELSE src
\* out is a netascii transcoding of src in which every CR immediately
\* followed by LF in src is the two bytes CR LF: NUL bytes of src are left
\* out, a bare LF becomes CR LF, a CR not followed by LF becomes CR NUL
\* (or CR alone before an LF that only NUL bytes separate from it).
RECURSIVE Transcodes(_, _)
Transcodes(src, out) ==
  IF src = <<>> THEN out = <<>>
  ELSE LET chr == Head(src)
           rest == Tail(src)
       IN IF chr = NUL THEN Transcodes(rest, out)
          ELSE IF chr = CR /\ rest # <<>> /\ Head(rest) = LF
          THEN Take(out, 2) = <<CR, LF>> /\ Transcodes(Tail(rest), Drop(out, 2))
          ELSE IF chr = CR
          THEN \/ Take(out, 2) = <<CR, NUL>> /\ Transcodes(rest, Drop(out, 2))
               \/ /\ SkipNul(rest) # <<>> /\ Head(SkipNul(rest)) = LF
                  /\ Take(out, 2) = <<CR, LF>>
                  /\ Transcodes(Tail(SkipNul(rest)), Drop(out, 2))
          ELSE IF chr = LF
          THEN Take(out, 2) = <<CR, LF>> /\ Transcodes(rest, Drop(out, 2))
          ELSE Take(out, 1) = <<chr>> /\ Transcodes(rest, Drop(out, 1))
DriverTranscodes ==
  \A socket \in Sockets \ {LISTEN} :
    ReadServed(socket) => Transcodes(fs[path_f], Stream(Emitted(socket)))
EngineTranscodes ==
  EngineReadServed => Transcodes(fs[path_f], Stream(eng.out))
\* The text holds no NUL byte.
NoNulInSource == \A i \in DOMAIN fs[path_f] : fs[path_f][i] # NUL

\* C20: for every source text and every alignment of the blocks, a
\* netascii read served to its end emits CR LF for each CR immediately
\* followed by LF in the source, never CR NUL CR LF.
C20_CrLfPreserved == DriverTranscodes /\ EngineTranscodes
\* The driver keeps every CR LF of a text that holds no NUL byte.
C20_DriverCrLfPreserved == NoNulInSource => DriverTranscodes
\* The engine has served the text LF CR LF as CR LF, CR NUL, CR LF.
C20_EngineSplitsCrLf ==
  /\ fs[path_f] = <<LF, CR, LF>>
  /\ EngineReadServed
  /\ Stream(eng.out) = <<CR, LF, CR, NUL, CR, LF>>
\* The driver has served the text NUL CR LF as CR NUL, CR LF.
C20_DriverSplitsCrLf ==
  /\ fs[path_f] = <<NUL, CR, LF>>
  /\ \E socket \in Sockets \ {LISTEN} :
       ReadServed(socket) /\ Stream(Emitted(socket)) = <<CR, NUL, CR, LF>>

\* Every DATA among packets but the last carries DATALEN bytes.
FullBeforeLast(packets) ==
  LET datas == SelectSeq(packets, IsData)
  IN \A i \in DOMAIN datas : i < Len(datas) => Len(datas[i]) = DATAMSG_MAXLEN
\* Transcodes, except that a CR LF of src may also come out as CR NUL CR LF.
RECURSIVE CarriesOver(_, _)
CarriesOver(src, out) ==
  IF src = <<>> THEN out = <<>>
  ELSE LET chr == Head(src)
           rest == Tail(src)
       IN IF chr = NUL THEN CarriesOver(rest, out)
          ELSE IF chr = CR
          THEN \/ Take(out, 2) = <<CR, NUL>> /\ CarriesOver(rest, Drop(out, 2))
               \/ /\ SkipNul(rest) # <<>> /\ Head(SkipNul(rest)) = LF
                  /\ Take(out, 2) = <<CR, LF>>
                  /\ CarriesOver(Tail(SkipNul(rest)), Drop(out, 2))
          ELSE IF chr = LF
          THEN Take(out, 2) = <<CR, LF>> /\ CarriesOver(rest, Drop(out, 2))
          ELSE Take(out, 1) = <<chr>> /\ CarriesOver(rest, Drop(out, 1))

\* C21: the payloads of a netascii read, concatenated, are the transcoding
\* of the whole source, the bytes transcoded beyond a full payload opening
\* the next packet in order and exactly once, and every block before the
\* last carries DATALEN bytes.
C21_CarryDelivered ==
  /\ \A socket \in Sockets \ {LISTEN} :
       /\ FullBeforeLast(Emitted(socket))
       /\ ReadServed(socket) => Transcodes(fs[path_f], Stream(Emitted(socket)))
  /\ FullBeforeLast(eng.out)
  /\ EngineReadServed => Transcodes(fs[path_f], Stream(eng.out))
\* For a text without NUL bytes every block before the last is full and
\* the finished stream holds every transcoded byte in order and once, a
\* CR LF of the text possibly as CR NUL CR LF.
C21_CarryDeliveredWithoutNul ==
  NoNulInSource =>
    /\ \A socket \in Sockets \ {LISTEN} :
         /\ FullBeforeLast(Emitted(socket))
         /\ ReadServed(socket) => CarriesOver(fs[path_f], Stream(Emitted(socket)))
    /\ FullBeforeLast(eng.out)
    /\ EngineReadServed => CarriesOver(fs[path_f], Stream(eng.out))
\* The engine has ended the read of NUL a a after one DATA of one byte.
C21_EngineCutAtNul ==
  /\ fs[path_f] = <<NUL, 97, 97>>
  /\ EngineReadServed
  /\ Stream(eng.out) = <<97>>
\* The driver has ended the read of NUL a a after one DATA of one byte.
C21_DriverCutAtNul ==
  /\ fs[path_f] = <<NUL, 97, 97>>
  /\ \E socket \in Sockets \ {LISTEN} :
       ReadServed(socket) /\ Stream(Emitted(socket)) = <<97>>
\* The engine has served CR CR a: two bytes carried into the second packet
\* and one into the third.
C21_EngineCarried ==
  /\ fs[path_f] = <<CR, CR, 97>>
  /\ EngineReadServed
  /\ Stream(eng.out) = <<CR, NUL, CR, NUL, 97>>
  /\ Len(eng.out) = 3

----------------------------------------------------------------------------
(* Deadlines of uploads (SpecWrite).                                       *)

\* The sessions of uploads that a timer expiry ends in this step.
DeadlineEnds ==
  {i \in DOMAIN sessions \ DOMAIN sessions' :
     rcvd' = NoDatagram /\ sessions[i].opc = WRQ}
\* An expiry while the staging file is open sends Timed Out.
DeadlineWhileOpen ==
  \A i \in DeadlineEnds :
    sessions[i].file.isopen =>
      NewlySent(sessions[i].socket) = <<[to |-> sessions[i].key, bytes |-> timed_out]>>
\* An expiry after the commit sends nothing.
DeadlineAfterCommit ==
  \A i \in DeadlineEnds :
    ~sessions[i].file.isopen => NewlySent(sessions[i].socket) = <<>>

\* C22: the deadline of a WRQ session that expires while the staging file
\* is open sends Timed Out and ends the session; one that expires after the
\* file was committed only cleans up and sends no ERROR packet.
C22_DeadlineByFileState == [][DeadlineWhileOpen /\ DeadlineAfterCommit]_vars
\* The half about the open file.
C22_TimedOutWhileOpen == [][DeadlineWhileOpen]_vars
\* An upload committed to the target has been sent Timed Out after the ACK
\* of its last block.
C22_TimedOutAfterCommit ==
  /\ rcvd = NoDatagram
  /\ Exists(fs, path_g) /\ fs[path_g] \notin {<<>>, OldContent}
  /\ \E socket \in Sockets \ {LISTEN} :
       /\ Len(sent[socket]) = 3
       /\ sent[socket][2].bytes = AckMsg(1)
       /\ sent[socket][3].bytes = timed_out
       /\ \A i \in DOMAIN sessions : sessions[i].socket # socket

----------------------------------------------------------------------------
(* The private copy of a read (SpecCopy).                                  *)

\* The step is another process's write: no handler ran.
SourceModified ==
  /\ rcvd' = NoDatagram
  /\ UNCHANGED <<sessions, timers, count, nsock, open, sent, eng>>
\* Handlers leave the requested path as it is.
SourceUntouched ==
  (FileAt(fs', path_f) # FileAt(fs, path_f)) => SourceModified
\* What goes out is the source as it was when the request was accepted.
DeliversOriginal ==
  /\ \A socket \in Sockets \ {LISTEN} :
       /\ DeliversPrefix(Emitted(socket), Original)
       /\ ReadServed(socket) => DeliversAll(Emitted(socket), Original)
  /\ DeliversPrefix(eng.out, Original)
  /\ EngineReadServed => DeliversAll(eng.out, Original)
\* A session's temporary is never the requested path, and a temporary
\* without a session is gone.
OnlyCopyDeleted ==
  /\ Exists(fs, path_f)
  /\ \A i \in DOMAIN sessions : sessions[i].tmp # path_f
  /\ DOMAIN sessions = {} /\ eng.s.opc = 0 => DOMAIN fs = {path_f}

----------------------------------------------------------------------------
(* The end of a session (SpecEnd).                                         *)

\* A path tmpname gives out.
IsTmpName(p) == Len(p) > 1 /\ p[1] = 0
\* A session that leaves the table leaves no timer, no temporary and no
\* reader on its socket, and no other session takes its place.
EndReleases ==
  \A i \in DOMAIN sessions \ DOMAIN sessions' :
    LET s == sessions[i]
    IN /\ s.timer # INVALID_TIMER => \A t \in DOMAIN timers' : timers'[t].siter # i
       /\ s.tmp # <<>> => ~Exists(fs', s.tmp)
       /\ s.socket # INVALID_SOCKET => s.socket \notin open'
       /\ DOMAIN sessions' \subseteq DOMAIN sessions
\* Every temporary in the temp directory is that of a session in the
\* table, and every socket read is the listening socket or that of a
\* session in the table.
NothingLeft ==
  /\ \A p \in DOMAIN fs :
       IsTmpName(p) => \E i \in DOMAIN sessions : sessions[i].tmp = p
  /\ \A socket \in open \ {LISTEN} :
       \E i \in DOMAIN sessions : sessions[i].socket = socket
\* The ways a session has ended, told by the last packet on its socket.
EndedWith(bytes) ==
  \E socket \in Sockets \ {LISTEN} :
    /\ sent[socket] # <<>>
    /\ sent[socket][Len(sent[socket])].bytes = bytes
    /\ socket \notin open

\* C24: a session ended in any way has its timer cancelled, its file
\* closed, its temporary deleted, its socket shut down and its entry
\* removed; with no session in the table no staging file is left in the
\* temp directory.
C24_TerminationReleases == []NothingLeft /\ [][EndReleases]_vars
\* No session is left and no temporary, after an upload was committed and
\* its deadline expired.
C24_Witness ==
  /\ DOMAIN sessions = {}
  /\ count > 0
  /\ Exists(fs, path_g) /\ fs[path_g] # <<>>
  /\ EndedWith(timed_out)
  /\ \A p \in DOMAIN fs : ~IsTmpName(p)
\* No session is left after one ended on Access violation, File not found
\* or Unknown TID.
C24_EndedOnError ==
  /\ DOMAIN sessions = {}
  /\ \/ EndedWith(access_violation)
     \/ EndedWith(file_not_found)
     \/ EndedWith(unknown_tid)

\* The timers armed for the session at i.
TimersOf(i) == {t \in DOMAIN timers : timers[t].siter = i}
\* A session whose operation is set has one timer armed, the one it holds.
OneTimerEach ==
  \A i \in DOMAIN sessions :
    sessions[i].opc \in {RRQ, WRQ} => TimersOf(i) = {sessions[i].timer}
\* Every timer armed is that of a session in the table, on its socket.
TimersOwned ==
  \A t \in DOMAIN timers :
    /\ timers[t].siter \in DOMAIN sessions
    /\ sessions[timers[t].siter].timer = t
    /\ sessions[timers[t].siter].socket = timers[t].socket

\* C25: between handlers every session whose operation is RRQ or WRQ has
\* exactly one timer armed and every timer armed belongs to a session in
\* the table: arming removes the previous timer and the end of a session
\* its last, so that no callback finds its session removed.
C25_OneTimerPerSession == OneTimerEach /\ TimersOwned
\* An upload that has armed its deadline for the second time, after the
\* first DATA, and a read that has armed its timer for the second block
\* hold the only two timers.
C25_Witness ==
  \E i, j \in DOMAIN sessions :
    /\ sessions[i].opc = WRQ /\ sessions[i].block_num = 1
    /\ sessions[j].opc = RRQ /\ sessions[j].block_num = 2
    /\ DOMAIN timers = {sessions[i].timer, sessions[j].timer}
    /\ sessions[i].timer # sessions[j].timer

----------------------------------------------------------------------------
(* The staging file of a session (SpecWrite).                              *)

\* The session state s names no temporary, or one that exists.
TmpExists(s) == s.tmp # <<>> => Exists(fs, s.tmp)

\* C26: while a session is in the table, a non-empty tmp is the path of an
\* existing file: after staging returned, with or without a stream, and
\* after an upload was committed.
C26_TmpExists ==
  /\ \A i \in DOMAIN sessions : TmpExists(sessions[i])
  /\ TmpExists(eng.s)
\* The same of the sessions whose stream is open.
C26_TmpExistsWhileOpen ==
  /\ \A i \in DOMAIN sessions : sessions[i].file.isopen => TmpExists(sessions[i])
  /\ eng.s.file.isopen => TmpExists(eng.s)
\* A session of the driver after its commit: tmp is set, the file renamed.
C26_CommittedTmpGone ==
  \E i \in DOMAIN sessions :
    /\ sessions[i].opc = WRQ /\ ~sessions[i].file.isopen
    /\ sessions[i].tmp # <<>> /\ ~Exists(fs, sessions[i].tmp)
    /\ Exists(fs, sessions[i].target)
\* handle_request has returned Access violation for a temporary that
\* could not be opened: tmp is set and names no file.
C26_EngineStagingFailed ==
  /\ eng.ret = ACCESS_VIOLATION
  /\ eng.s.file.null
  /\ eng.s.tmp # <<>> /\ ~Exists(fs, eng.s.tmp)

----------------------------------------------------------------------------
(* Round-trip average and timer intervals (SpecRtt).                       *)

\* x brought into lo..hi.
Clamp(x, lo, hi) == IF x < lo THEN lo ELSE IF x > hi THEN hi ELSE x
\* The average a session holds and the interval of its timer are in range.
RttInRange ==
  /\ \A i \in DOMAIN sessions :
       sessions[i].avg_rtt \in TIMEOUT_MIN..TIMEOUT_MAX
  /\ \A t \in DOMAIN timers :
       /\ timers[t].kind = "data" =>
            /\ timers[t].interval = 2 * sessions[timers[t].siter].avg_rtt
            /\ timers[t].interval \in 4..400
       /\ timers[t].kind = "ack" =>
            /\ timers[t].interval = 5 * sessions[timers[t].siter].avg_rtt
            /\ timers[t].interval \in 10..1000
\* A session that sends a new block, or the first ACK or DATA of a new
\* session, updates the average from the previous one (TIMEOUT_MAX at the
\* start) and a sample; every other step leaves it.
RttUpdated ==
  \A i \in DOMAIN sessions' :
    LET prev == IF i \in DOMAIN sessions THEN sessions[i].avg_rtt ELSE TIMEOUT_MAX
        armed == \/ i \notin DOMAIN sessions
                 \/ sessions'[i].block_num # sessions[i].block_num
    IN IF armed
       THEN \E sample \in Samples :
              sessions'[i].avg_rtt =
                Clamp((prev * 3) \div 4 + sample \div 4, TIMEOUT_MIN, TIMEOUT_MAX)
       ELSE sessions'[i].avg_rtt = prev

\* C27: avg_rtt starts at TIMEOUT_MAX and every update sets it to
\* prev * 3 / 4 + sample / 4 in integer milliseconds, clamped to 2..200, for
\* samples of 0 and far above 200 too; so avg_rtt is always in 2..200, the
\* interval of a read's timer (twice avg_rtt) in 4..400 and the deadline of
\* an upload (five times avg_rtt) in 10..1000.
C27_RttClamped == []RttInRange /\ [][RttUpdated]_vars
\* A read whose average has come down to TIMEOUT_MIN and stays there on a
\* sample of 0, its timer armed at 4 ms.
C27_Witness ==
  \E i \in DOMAIN sessions :
    /\ sessions[i].opc = RRQ /\ sessions[i].block_num = RttBlocks
    /\ sessions[i].avg_rtt = TIMEOUT_MIN
    /\ timers[sessions[i].timer].interval = 4

----------------------------------------------------------------------------
(* Temporary names (SpecCount).                                            *)

\* The number a name ends with: its five digits read as a decimal.
NameCounter(p) ==
  (p[2] - 48) * 10000 + (p[3] - 48) * 1000 + (p[4] - 48) * 100
    + (p[5] - 48) * 10 + (p[6] - 48)
\* A session staged in this step has the name of the counter, as the
\* prefix and five digits, and the counter has gone up by one on 16 bits.
NameIssued ==
  \A i \in DOMAIN sessions' \ DOMAIN sessions :
    sessions'[i].tmp # <<>> =>
      /\ Len(sessions'[i].tmp) = 6 /\ sessions'[i].tmp[1] = 0
      /\ \A k \in 2..6 : sessions'[i].tmp[k] \in 48..57
      /\ NameCounter(sessions'[i].tmp) = count
      /\ count' = (count + 1) % U16
\* No two sessions in the table have the same staging path.
NoSharedName ==
  \A i, j \in DOMAIN sessions :
    i # j /\ sessions[i].tmp # <<>> => sessions[i].tmp # sessions[j].tmp

\* C28: tmpname gives <tempdir>/tftp.<counter as five digits>, the 16-bit
\* counter going up by one per call, and no two sessions in the table at
\* the same time have the same staging path, however many sessions came
\* before them.
C28_NamesUnique == []NoSharedName /\ [][NameIssued]_vars
\* The half about the form of the names and the counter.
C28_NamesFromCounter == [][NameIssued]_vars
\* The counter has wrapped: a session holds tftp.65535 and the counter is 0.
C28_CounterWrapped ==
  /\ count = 0
  /\ \E i \in DOMAIN sessions : sessions[i].tmp = <<0, 54, 53, 53, 51, 53>>
\* A later session has been given tftp.00000 while the first session is
\* still reading from it.
C28_SharedStagingPath ==
  \E i, j \in DOMAIN sessions :
    /\ i # j
    /\ sessions[i].key = Reader /\ sessions[i].file.isopen
    /\ sessions[j].tmp = sessions[i].tmp
    /\ sessions[j].tmp = <<0, 48, 48, 48, 48, 48>>

----------------------------------------------------------------------------
(* Decoding of requests (SpecParse).                                       *)

\* The names of the modes and their numbers.
ModeOf(name) ==
  CASE name = str_netascii -> NETASCII
    [] name = str_octet -> OCTET
    [] name = str_mail -> MAIL
    [] OTHER -> 0
Lowered(str) == [k \in DOMAIN str |-> IF str[k] \in 65..90 THEN str[k] + 32 ELSE str[k]]
NoNul(str) == \A k \in DOMAIN str : str[k] # NUL
\* The ways to read b as opcode, file name, zero, mode, zero and a rest:
\* <<i, j>> are the places of the two zero bytes.
Readings(b) ==
  {ij \in (4..Len(b)) \X (5..Len(b)) :
     /\ ij[1] < ij[2]
     /\ b[ij[1]] = NUL /\ b[ij[2]] = NUL
     /\ NoNul(SubSeq(b, 3, ij[1] - 1))
     /\ NoNul(SubSeq(b, ij[1] + 1, ij[2] - 1))}
\* b is a request: opcode RRQ or WRQ, a non-empty file name and its zero,
\* a mode that is netascii, octet or mail in some case and its zero.
WellFormed(b) ==
  /\ Len(b) >= 2 /\ ntohs(b, 0) \in {RRQ, WRQ}
  /\ \E ij \in Readings(b) :
       ModeOf(Lowered(SubSeq(b, ij[1] + 1, ij[2] - 1))) # 0
\* What parse_request gives for rcvd, against the reading of the bytes.
Decoded ==
  LET b == rcvd.bytes
      req == parse_request(b)
  IN rcvd.socket = LISTEN =>
       /\ req.ok <=> WellFormed(b)
       /\ req.ok =>
            \E ij \in Readings(b) :
              /\ req.opc = ntohs(b, 0)
              /\ req.filename = SubSeq(b, 3, ij[1] - 1)
              /\ req.mode = ModeOf(Lowered(SubSeq(b, ij[1] + 1, ij[2] - 1)))
\* A datagram with a request's opcode on the listening socket is answered
\* Not implemented exactly if it is no request; a session it leaves in the
\* table has the opcode, file name and mode read from it.
RequestDecoded ==
  LET b == rcvd'.bytes
  IN rcvd'.socket = LISTEN /\ ntohs(b, 0) \in {RRQ, WRQ} /\ nsock' = nsock + 1 =>
       /\ (NewlySent(nsock') = <<[to |-> rcvd'.address, bytes |-> not_implemented]>>)
            <=> ~WellFormed(b)
       /\ ~WellFormed(b) => DOMAIN sessions' = DOMAIN sessions
       /\ \A i \in DOMAIN sessions' \ DOMAIN sessions :
            \E ij \in Readings(b) :
              /\ sessions'[i].opc = ntohs(b, 0)
              /\ sessions'[i].target = SubSeq(b, 3, ij[1] - 1)
              /\ sessions'[i].mode = ModeOf(Lowered(SubSeq(b, ij[1] + 1, ij[2] - 1)))

\* C29: a request is decoded only if its opcode is RRQ or WRQ, a non-empty
\* file name and a zero byte follow, and a mode and a zero byte follow
\* that, the mode being netascii, octet or mail in any case; without either
\* zero byte, or with any other mode, one that starts with a mode's name
\* included, the datagram is no request.
C29_RequestDecoding == []Decoded /\ [][RequestDecoded]_vars
\* A read accepted with the mode written NetAscii and a byte after its
\* zero.
C29_Witness ==
  /\ rcvd.bytes = Request(RRQ, path_f, <<78, 101, 116, 65, 115, 99, 105, 105>>) \o <<120>>
  /\ \E i \in DOMAIN sessions :
       /\ sessions[i].opc = RRQ /\ sessions[i].mode = NETASCII
       /\ sessions[i].target = path_f
\* A request whose mode is netasciix has been answered Not implemented.
C29_ExtendedModeRefused ==
  /\ rcvd.bytes = Request(WRQ, path_g, str_netascii \o <<120>>)
  /\ sent[1] = <<[to |-> Reader, bytes |-> not_implemented]>>
  /\ DOMAIN sessions = {}

----------------------------------------------------------------------------
(* The command line (SpecMain).                                            *)

Options == parse(proc.argv)
Written(stream, text) ==
  \E k \in DOMAIN proc.out : proc.out[k] = [to |-> stream, text |-> text]
Started == Written("log", "starting")
IsHelp(opt) == opt.flag \in {flag_h, flag_help}
\* A port is written in decimal digits and is at most 65535.
IsPort(value) ==
  /\ value # <<>>
  /\ \A k \in DOMAIN value : value[k] \in 48..57
  /\ decimal(value) < U16
IsLevel(value) ==
  [k \in DOMAIN value |-> IF value[k] \in 65..90 THEN value[k] + 32 ELSE value[k]]
    \in level_names
\* opt has a flag that is none of the program's, a port that is no port, or
\* a log level that is none.
IsFault(opt) ==
  /\ opt.flag # <<>>
  /\ \/ opt.flag \notin {flag_h, flag_help, flag_m, flag_mail_prefix, flag_l,
                         flag_log_level, flag_p, flag_port}
     \/ opt.flag \in {flag_p, flag_port} /\ ~IsPort(opt.value)
     \/ opt.flag \in {flag_l, flag_log_level} /\ ~IsLevel(opt.value)
\* The first option that asks for help or is at fault is at fault; is a
\* request for help.
FaultFirst ==
  \E k \in DOMAIN Options :
    IsFault(Options[k]) /\ \A j \in 1..(k - 1) : ~IsFault(Options[j]) /\ ~IsHelp(Options[j])
HelpFirst ==
  \E k \in DOMAIN Options :
    IsHelp(Options[k]) /\ \A j \in 1..(k - 1) : ~IsFault(Options[j]) /\ ~IsHelp(Options[j])

\* C30: with an unrecognized flag, an invalid port or an unknown log level
\* on the command line the process exits with a status other than 0 and
\* the server is not started; with -h or --help the usage is printed and
\* the process exits with status 0.
C30_ExitStatus ==
  /\ FaultFirst => ~Started /\ proc.state # "running"
  /\ proc.state = "exited" /\ FaultFirst => proc.status # 0
  /\ proc.state = "exited" /\ HelpFirst =>
       proc.status = 0 /\ proc.out = <<Usage("stdout")>>
\* What main does: it returns 0 whatever the command line, and after a
\* request for help it has printed the usage.  When the first option at
\* fault is a flag of its own it does not know, a log level it does not know
\* or a port that does not start with a number of at most 65535, it has
\* printed the usage on stderr and the server is not started.
C30_ExitsWithZero ==
  /\ proc.state = "exited" => proc.status = 0
  /\ proc.state # "init" /\ HelpFirst => proc.out = <<Usage("stdout")>> /\ ~Started
  /\ proc.state # "init" /\ ~Started /\ ~HelpFirst =>
       /\ FaultFirst
       /\ proc.state = "exited"
       /\ Len(proc.out) = 2 /\ proc.out[2] = Usage("stderr")
  /\ Started <=> proc.state # "init" /\ parse_args(proc.argv).ok
\* The process has exited with status 0 on a flag it does not know, the
\* server not started.
C30_UnknownFlagExitsZero ==
  /\ proc.argv = <<progname, <<45, 120>>>>
  /\ proc.state = "exited" /\ proc.status = 0 /\ ~Started
  /\ proc.out = <<[to |-> "stderr", text |-> "Unknown flag"], Usage("stderr")>>
\* The server runs on port 8 after -p 8x.
C30_PortWithRestStarted ==
  /\ proc.argv = <<progname, flag_p, <<56, 120>>>>
  /\ proc.state = "running" /\ proc.conf.port = 8
  /\ open = {LISTEN}
\* The process has exited with status 0 after --help.
C30_HelpExitsZero ==
  /\ proc.argv = <<progname, flag_help>>
  /\ proc.state = "exited" /\ proc.status = 0
  /\ proc.out = <<Usage("stdout")>>

----------------------------------------------------------------------------
(* The deadline of an upload (SpecWrite).                                  *)

\* The expiry of a deadline ends one upload: Timed Out is the one datagram
\* sent, to the session's peer on its socket, and the session and its timer
\* are gone.
DeadlineTimesOut ==
  rcvd' = NoDatagram =>
    \E i \in DOMAIN sessions :
      LET s == sessions[i]
      IN /\ s.opc = WRQ
         /\ i \notin DOMAIN sessions'
         /\ DOMAIN sessions' = DOMAIN sessions \ {i}
         /\ s.timer \notin DOMAIN timers'
         /\ NewlySent(s.socket) = <<[to |-> s.key, bytes |-> timed_out]>>
         /\ \A socket \in Sockets \ {s.socket} : sent'[socket] = sent[socket]
\* A DATA of the block already accepted is acknowledged again and leaves
\* every timer, and the session's round-trip estimate, as they were.
DuplicateKeepsDeadline ==
  \A i \in DOMAIN sessions :
    LET s == sessions[i]
    IN DataHandledFor(s) /\ IsDuplicate(s) =>
         /\ timers' = timers
         /\ i \in DOMAIN sessions'
         /\ sessions'[i].timer = s.timer /\ sessions'[i].avg_rtt = s.avg_rtt
         /\ NewlySent(s.socket) = <<[to |-> s.key, bytes |-> AckMsg(s.block_num)]>>
\* An upload in the table waits in one window of 5 * avg_rtt, and its last
\* datagram sent is the ACK of its block.
OneWindow ==
  \A i \in DOMAIN sessions :
    LET s == sessions[i]
    IN s.opc = WRQ =>
         /\ s.timer \in DOMAIN timers
         /\ timers[s.timer] = [siter |-> i, socket |-> s.socket, kind |-> "ack",
                               retries |-> 0, interval |-> 5 * s.avg_rtt]
         /\ \A id \in DOMAIN timers : timers[id].siter = i => id = s.timer
         /\ sent[s.socket] # <<>>
         /\ sent[s.socket][Len(sent[s.socket])].bytes = AckMsg(s.block_num)

\* C31: no timer makes the server send an ACK again: after an ACK, ACK 0
\* included, an upload waits in one window of 5 * avg_rtt, whose expiry
\* sends Timed Out and ends the session; a duplicate of the DATA last
\* accepted is acknowledged again and leaves the deadline as it was.
C31_SingleWindow == []OneWindow /\ [][DeadlineTimesOut /\ DuplicateKeepsDeadline]_vars
\* An upload at block 1, its DATA 1 handled twice and ACK 1 sent twice, has
\* been ended by its deadline: Timed Out follows the two ACKs.
C31_Witness ==
  /\ rcvd = NoDatagram
  /\ DOMAIN sessions = {} /\ DOMAIN timers = {}
  /\ Len(sent[1]) = 4
  /\ sent[1][1].bytes = AckMsg(0)
  /\ sent[1][2].bytes = AckMsg(1) /\ sent[1][3].bytes = AckMsg(1)
  /\ sent[1][4].bytes = timed_out

----------------------------------------------------------------------------
(* Retransmission (SpecResend).                                            *)

\* The DATA of the current block of s as it first went out.
OriginalData(s) ==
  LET E == Emitted(s.socket)
      ks == {k \in DOMAIN E : IsData(E[k]) /\ ntohs(E[k], 2) = s.block_num}
  IN E[CHOOSE k \in ks : \A j \in ks : k <= j]
\* An expiry before the retries are used up puts the original DATA of the
\* current block on the session's socket again, to the session's peer, and
\* counts one retry; sessions, files and the other timers are as before.
\* The expiry after that removes the session.
ExpiryResends ==
  rcvd' = NoDatagram =>
    \E id \in DOMAIN timers :
      LET t == timers[id]
          s == sessions[t.siter]
      IN /\ t.kind = "data" /\ s.opc = RRQ /\ s.timer = id
         /\ IF t.retries < MAX_RETRIES
            THEN /\ sessions' = sessions
                 /\ fs' = fs /\ count' = count /\ nsock' = nsock /\ open' = open
                 /\ timers' = [timers EXCEPT ![id].retries = @ + 1]
                 /\ NewlySent(s.socket) = <<[to |-> s.key, bytes |-> OriginalData(s)]>>
                 /\ ntohs(OriginalData(s), 2) = s.block_num
                 /\ Len(OriginalData(s)) <= DATAMSG_MAXLEN
                 /\ OriginalData(s) = Take(s.buffer, DATAMSG_MAXLEN)
                 /\ \A socket \in Sockets \ {s.socket} : sent'[socket] = sent[socket]
            ELSE t.siter \notin DOMAIN sessions'

\* C32: an expiry of the retransmission timer of a read sends the bytes of
\* the original DATA of the current block again, same block number and
\* payload, at most one DATA message long; the file is not read, the block,
\* the buffer and avg_rtt stay, and only the retry count changes.
C32_ResendIsOriginal == [][ExpiryResends]_vars
\* A netascii read whose buffer holds a carry beyond the DATA message has
\* had its second block sent twice.
C32_Witness ==
  /\ rcvd = NoDatagram
  /\ \E i \in DOMAIN sessions :
       LET s == sessions[i]
       IN /\ s.opc = RRQ /\ s.mode = NETASCII /\ s.block_num = 2
          /\ Len(s.buffer) > DATAMSG_MAXLEN
          /\ timers[s.timer].retries = 1
          /\ Len(sent[s.socket]) = 3
          /\ sent[s.socket][3] = sent[s.socket][2]
          /\ sent[s.socket][3].bytes = Take(s.buffer, DATAMSG_MAXLEN)

----------------------------------------------------------------------------
(* Datagrams of no known opcode (SpecOther).                               *)

\* The step handles a datagram whose opcode is none of the four.
OtherOpcode ==
  /\ rcvd'.socket # INVALID_SOCKET
  /\ Len(rcvd'.bytes) >= 2
  /\ ntohs(rcvd'.bytes, 0) \notin {RRQ, WRQ, DATA, ACK}
\* The sessions the datagram is routed to.
Routed == {i \in DOMAIN sessions :
             sessions[i].key = rcvd'.address /\ sessions[i].socket = rcvd'.socket}
\* It is answered Illegal operation, once, on the socket of the session it
\* was routed to, and that session is gone with its timer and temporary; no
\* other session, timer or file changes.
IllegalAnswered ==
  OtherOpcode =>
    IF Routed # {}
    THEN \A i \in Routed :
           LET s == sessions[i]
           IN /\ DOMAIN sessions' = DOMAIN sessions \ {i}
              /\ \A j \in DOMAIN sessions' : sessions'[j] = sessions[j]
              /\ DOMAIN timers' = DOMAIN timers \ {s.timer}
              /\ \A id \in DOMAIN timers' : timers'[id].siter # i
              /\ s.tmp # <<>> => ~Exists(fs', s.tmp)
              /\ \A p \in DOMAIN fs \ {s.tmp} : Exists(fs', p) /\ fs'[p] = fs[p]
              /\ NewlySent(s.socket) = <<[to |-> s.key, bytes |-> illegal_operation]>>
              /\ s.socket \notin open'
              /\ \A socket \in Sockets \ {s.socket} : sent'[socket] = sent[socket]
    ELSE /\ sessions' = sessions /\ timers' = timers /\ fs' = fs
         /\ nsock' = nsock + 1
         /\ NewlySent(nsock') = <<[to |-> rcvd'.address, bytes |-> illegal_operation]>>
         /\ nsock' \notin open'
         /\ \A socket \in Sockets \ {nsock'} : sent'[socket] = sent[socket]

\* C33: a datagram whose opcode is none of RRQ, WRQ, DATA and ACK is
\* answered with Illegal operation, and the session it was routed to, new
\* or running, is removed with its timer cancelled and its temporary
\* deleted.
C33_IllegalOperation == [][IllegalAnswered]_vars
\* An upload with a block staged has been ended by an ERROR datagram of its
\* peer: Illegal operation follows its ACKs, no session, timer or temporary
\* is left.
C33_Witness ==
  /\ rcvd = [address |-> Reader, socket |-> 1, bytes |-> ErrorMsg]
  /\ DOMAIN sessions = {} /\ DOMAIN timers = {}
  /\ \A p \in DOMAIN fs : ~IsTmpName(p)
  /\ Len(sent[1]) = 3
  /\ sent[1][1].bytes = AckMsg(0) /\ sent[1][2].bytes = AckMsg(1)
  /\ sent[1][3].bytes = illegal_operation
\* A datagram of opcode 0 on the listening socket has been answered from a
\* new socket, and no session is left.
C33_FreshSessionRemoved ==
  /\ rcvd = [address |-> Reader, socket |-> LISTEN, bytes |-> htons(0) \o htons(0)]
  /\ DOMAIN sessions = {} /\ nsock = 1
  /\ sent[1] = <<[to |-> Reader, bytes |-> illegal_operation]>>

----------------------------------------------------------------------------
(* The short DATA of a read (SpecNetascii, SpecRead).                      *)

\* The current DATA of a read s is short only if its file is read to the
\* end; a short DATA leaves no carry, the buffer being shorter than a
\* DATA message.
ShortOnlyAtEnd(s) ==
  s.opc = RRQ /\ s.file.isopen /\ Len(s.buffer) < DATAMSG_MAXLEN =>
    s.file.pos >= Len(fs[s.file.path])
\* The payloads of blocks 1..k among packets, k the first block that is
\* short, each block taken once however often it went out.
UpToShort(packets) ==
  LET datas == SelectSeq(packets, IsData)
      shorts == {ntohs(datas[k], 2) : k \in {k \in DOMAIN datas : Len(datas[k]) < DATAMSG_MAXLEN}}
  IN IF shorts = {} THEN <<>>
     ELSE Concat([b \in 1..(CHOOSE b \in shorts : \A c \in shorts : b <= c) |->
                    PayloadOf(datas, b)])
HasShort(packets) ==
  \E k \in DOMAIN packets : IsData(packets[k]) /\ Len(packets[k]) < DATAMSG_MAXLEN
ShortIsLast ==
  /\ \A i \in DOMAIN sessions : ShortOnlyAtEnd(sessions[i])
  /\ eng.ret = 0 => ShortOnlyAtEnd(eng.s)
  /\ \A socket \in Sockets \ {LISTEN} :
       HasShort(Emitted(socket)) =>
         CarriesOver(fs[path_f], UpToShort(Emitted(socket)))
  /\ HasShort(eng.out) => CarriesOver(fs[path_f], UpToShort(eng.out))

\* C34: a read emits a DATA shorter than DATALEN only when the source is
\* read to its end and nothing is carried, so that the packets up to the
\* first short one hold the whole transcoded file (a CR LF of the text
\* counted as delivered in either of its forms); also for netascii texts
\* with NUL bytes, which are left out of the stream.
C34_ShortOnlyAtEnd == ShortIsLast
\* The same for the texts that hold no NUL byte.
C34_ShortOnlyAtEndWithoutNul == NoNulInSource => ShortIsLast
\* The driver's read of NUL a a has sent a first DATA of one byte with a
\* byte of the source still unread.
C34_DriverShortBeforeEnd ==
  \E i \in DOMAIN sessions :
    LET s == sessions[i]
    IN /\ s.opc = RRQ /\ s.mode = NETASCII /\ s.block_num = 1
       /\ s.buffer = DataMsg(1, <<97>>)
       /\ fs[s.file.path] = <<NUL, 97, 97>> /\ s.file.pos = DATALEN
\* The engine's read of a NUL a has prepared a first DATA of one byte with
\* a byte of the source still unread.
C34_EngineShortBeforeEnd ==
  /\ eng.ret = 0 /\ eng.s.opc = RRQ /\ eng.s.file.isopen
  /\ eng.s.buffer = DataMsg(1, <<97>>)
  /\ fs[eng.s.file.path] = <<97, NUL, 97>> /\ eng.s.file.pos = DATALEN

----------------------------------------------------------------------------
(* The size of the buffer of a read (SpecCarry).                           *)

\* The capacity send_next reserves: a DATA message and one payload more.
Reserved == DATAMSG_MAXLEN + DATALEN
\* The buffer of a read holds at most the reserved capacity, that is, at
\* most DATALEN bytes beyond the DATA message are left for the next packet,
\* and the DATA message less header and carry is not negative.
BufferBounded(s) == s.opc = RRQ => Len(s.buffer) <= Reserved
DriverBufferBounded == \A i \in DOMAIN sessions : BufferBounded(sessions[i])
EngineBufferBounded == BufferBounded(eng.s)

\* C35: after every preparation of a DATA block, whatever the source and
\* the mode, the buffer is at most 4 + DATALEN + DATALEN bytes long: the
\* carry is at most DATALEN bytes, the count of bytes asked of the file is
\* not negative and the reserved capacity is not exceeded.
C35_BufferBounded == DriverBufferBounded /\ EngineBufferBounded
\* The same of send_next of tftp.cpp alone, which asks the file for what the
\* DATA message has room for after header and carry.
C35_EngineBufferBounded == EngineBufferBounded
\* The driver's read of a text of line feeds has prepared its second block
\* with a buffer beyond the reserved capacity: one payload to send and two
\* payloads of carry.
C35_DriverBufferGrown ==
  \E i \in DOMAIN sessions :
    LET s == sessions[i]
    IN /\ s.opc = RRQ /\ s.block_num = 2
       /\ fs[s.file.path] = [k \in 1..(2 * DATALEN) |-> LF]
       /\ Len(s.buffer) = DATAMSG_MAXLEN + 2 * DATALEN
\* The engine has prepared a block from a buffer with a full carry, asking
\* the file for no byte.
C35_EngineFullCarry ==
  /\ eng.s.opc = RRQ /\ eng.ret = 0 /\ eng.s.block_num = 2
  /\ fs[path_f] = [k \in 1..(2 * DATALEN) |-> LF]
  /\ eng.s.file.pos = DATALEN
  /\ Len(eng.s.buffer) = DATAMSG_MAXLEN

----------------------------------------------------------------------------
(* The ACKs of an upload (SpecWrite).                                      *)

\* The blocks of the ACKs put on socket in this step, in order.
NewAcks(socket) ==
  LET new == NewlySent(socket)
  IN [k \in DOMAIN new |-> IF IsAck(new[k].bytes) THEN ntohs(new[k].bytes, 2) ELSE -1]
\* Every datagram a handler puts on the socket of an upload that stays in
\* the table is the ACK of the block the session is at.  ACK 0 is sent by
\* the request that opened the staging file.  On a DATA of the next block
\* the ACK follows the write: the staging file, or the target once the
\* short last block has renamed it, holds what was staged before and then
\* the payload.  Any other ACK repeats the one before it.
AckAfterStore ==
  \A i \in DOMAIN sessions' :
    LET t == sessions'[i]
        acks == NewAcks(t.socket)
        payload == Drop(rcvd'.bytes, HDRLEN)
    IN t.opc = WRQ /\ acks # <<>> =>
         /\ \A k \in DOMAIN acks : acks[k] = t.block_num
         /\ IF i \notin DOMAIN sessions \/ sessions[i].opc = 0
            THEN /\ ntohs(rcvd'.bytes, 0) = WRQ
                 /\ acks = <<0>>
                 /\ t.file.isopen /\ Exists(fs', t.tmp) /\ fs'[t.tmp] = <<>>
            ELSE LET s == sessions[i]
                 IN /\ IsData(rcvd'.bytes)
                    /\ rcvd'.address = s.key /\ rcvd'.socket = s.socket
                    /\ Len(acks) = 1
                    /\ ntohs(rcvd'.bytes, 2) = t.block_num
                    /\ IF t.block_num = s.block_num
                       THEN fs' = fs /\ t.file = s.file
                       ELSE /\ t.block_num = s.block_num + 1
                            /\ s.file.isopen
                            /\ IF Len(payload) < DATALEN
                               THEN /\ ~t.file.isopen /\ ~Exists(fs', s.tmp)
                                    /\ Exists(fs', s.target)
                                    /\ IsPrefix(fs[s.tmp] \o payload, fs'[s.target])
                               ELSE /\ t.file.isopen /\ Exists(fs', s.tmp)
                                    /\ IsPrefix(fs[s.tmp] \o payload, fs'[s.tmp])
\* The ACKs on the socket of an upload count up from 0 to its block.
AcksInOrder ==
  \A i \in DOMAIN sessions :
    LET s == sessions[i]
        acks == SelectSeq(Emitted(s.socket), IsAck)
    IN s.opc = WRQ =>
         /\ acks # <<>> /\ ntohs(acks[1], 2) = 0
         /\ ntohs(acks[Len(acks)], 2) = s.block_num
         /\ \A k \in 1..(Len(acks) - 1) :
              ntohs(acks[k + 1], 2) \in {ntohs(acks[k], 2), ntohs(acks[k], 2) + 1}

\* C36: an upload's ACK 0 is sent only once the staging file is open, ACK k
\* only once the payload of DATA k is written to it, and the ACK of the
\* short last block only once the staging file is renamed onto the target;
\* every ACK carries the block the session is at, so no block is
\* acknowledged that is not stored.
C36_AckAfterStore == []AcksInOrder /\ [][AckAfterStore]_vars
\* An upload has acknowledged a full block, staged, and then a short last
\* block, committed: the target holds both payloads.
C36_Witness ==
  \E i \in DOMAIN sessions :
    LET s == sessions[i]
    IN /\ s.opc = WRQ /\ s.block_num = 2 /\ ~s.file.isopen
       /\ [k \in DOMAIN sent[s.socket] |-> sent[s.socket][k].bytes]
            = <<AckMsg(0), AckMsg(1), AckMsg(2)>>
       /\ rcvd.bytes = DataMsg(2, Take(UploadChunk(2), 1))
       /\ ~Exists(fs, s.tmp)
       /\ IsPrefix(UploadChunk(1), fs[s.target])

----------------------------------------------------------------------------
(* The sessions left in the table (SpecStray).                             *)

\* Every session in the table serves a read or an upload, has a file
\* handle, and has the socket recorded that was created for it.
SessionsServing ==
  \A i \in DOMAIN sessions :
    LET s == sessions[i]
    IN /\ s.opc \in {RRQ, WRQ}
       /\ ~s.file.null
       /\ s.socket # INVALID_SOCKET /\ s.socket \in 1..nsock
\* A handler adds at most the session of an accepted request to the table:
\* the session created for any other datagram is gone when it returns.
OnlyRequestsStay ==
  \A i \in DOMAIN sessions' \ DOMAIN sessions :
    /\ parse_request(rcvd'.bytes).ok
    /\ sessions'[i].opc = ntohs(rcvd'.bytes, 0)
    /\ sessions'[i].key = rcvd'.address

\* C37: after any datagram or timer event every session in the table has
\* operation RRQ or WRQ, a file handle that is not null and its local
\* socket recorded; the session created for a datagram that is rejected,
\* malformed or fails staging is removed by the handler that created it,
\* and no session without operation outlasts an event.
C37_SessionsServing == []SessionsServing /\ [][OnlyRequestsStay]_vars
\* The session created for a stranger's ERROR datagram is gone, Illegal
\* operation sent from its socket, while the reader's session serves on.
C37_Witness ==
  /\ rcvd = [address |-> Stranger, socket |-> LISTEN, bytes |-> ErrorMsg]
  /\ \E i \in DOMAIN sessions :
       /\ DOMAIN sessions = {i}
       /\ sessions[i].key = Reader /\ sessions[i].opc = RRQ /\ sessions[i].socket = 1
  /\ sent[2] = <<[to |-> Stranger, bytes |-> illegal_operation]>>
\* The session of a write whose staging failed is gone.
C37_StagingFailedRemoved ==
  /\ rcvd.bytes = Request(WRQ, path_n, str_octet)
  /\ DOMAIN sessions = {}
  /\ sent[1] # <<>>

-----------------------------------------------------------------------------
(* After the commit (SpecWrite).                                           *)

\* An upload that has renamed its temporary onto target: server::data and
\* handle_data close the stream only on the way to the rename, and a failed
\* rename ends the session in the same step.
HasCommitted(s) == s.opc = WRQ /\ ~s.file.isopen /\ s.block_num >= 1
NextOf(s) == (s.block_num + 1) % U16

\* A datagram handled for a committed session of the driver leaves target
\* as it is; the final DATA again is answered with its ACK and nothing
\* else, the session as it was; the DATA of the next block appends nothing,
\* is answered with one ERROR and no ACK, and the session is gone.
DriverKeepsCommitted(i) ==
  LET s == sessions[i]
  IN HasCommitted(s) /\ rcvd'.address = s.key /\ rcvd'.socket = s.socket =>
       /\ FileAt(fs', s.target) = FileAt(fs, s.target)
       /\ IsData(rcvd'.bytes) /\ DataBlock = s.block_num =>
            /\ i \in DOMAIN sessions' /\ sessions'[i] = s
            /\ NewlySent(s.socket) = <<[to |-> s.key, bytes |-> AckMsg(s.block_num)]>>
            /\ timers' = timers
       /\ IsData(rcvd'.bytes) /\ DataBlock = NextOf(s) =>
            /\ i \notin DOMAIN sessions'
            /\ \A id \in DOMAIN timers' : timers'[id].siter # i
            /\ Len(NewlySent(s.socket)) = 1
            /\ IsError(NewlySent(s.socket)[1].bytes)
            /\ s.socket \notin open'

\* The engine: the final DATA again is skipped with result 0, the DATA of
\* the next block gives a non-zero result, and target is as it was.
EngineKeepsCommitted ==
  HasCommitted(eng.s) /\ eng.ret = 0 /\ eng' # eng /\ IsData(rcvd'.bytes) =>
    /\ FileAt(fs', eng.s.target) = FileAt(fs, eng.s.target)
    /\ DataBlock = eng.s.block_num => eng'.s = eng.s /\ eng'.ret = 0
    /\ DataBlock = NextOf(eng.s) => eng'.ret # 0

\* C38: once a WRQ session has renamed its temporary onto target, no
\* datagram routed to it changes the content of target: the final DATA sent
\* again is only acknowledged again, and a DATA with the next block number is
\* not appended to target but ends the session with an error.
C38_CommittedTargetKept ==
  [][(\A i \in DOMAIN sessions : DriverKeepsCommitted(i)) /\ EngineKeepsCommitted]_vars
\* A committed upload was sent the DATA of the block after its last one: it
\* has been answered Disk full after the ACK of its last block, the session
\* is gone, and target holds what was committed.
C38_Witness ==
  /\ sessions = <<>>
  /\ IsData(rcvd.bytes) /\ Len(rcvd.bytes) > HDRLEN /\ ntohs(rcvd.bytes, 2) >= 2
  /\ rcvd.socket \in DOMAIN sent /\ Len(sent[rcvd.socket]) >= 3
  /\ sent[rcvd.socket][Len(sent[rcvd.socket])].bytes = disk_full
  /\ sent[rcvd.socket][Len(sent[rcvd.socket]) - 1].bytes = AckMsg(ntohs(rcvd.bytes, 2) - 1)
  /\ Exists(fs, path_g) /\ Len(fs[path_g]) > DATALEN
\* A committed upload has just acknowledged its final DATA a second time.
C38_FinalReAcked ==
  \E i \in DOMAIN sessions :
    /\ HasCommitted(sessions[i])
    /\ rcvd.socket = sessions[i].socket /\ rcvd.address = sessions[i].key
    /\ IsData(rcvd.bytes) /\ ntohs(rcvd.bytes, 2) = sessions[i].block_num
    /\ Cardinality({k \in DOMAIN sent[rcvd.socket] :
                      sent[rcvd.socket][k].bytes = AckMsg(sessions[i].block_num)}) = 2
    /\ Exists(fs, path_g)
\* The engine was handed the DATA after the last with no payload: the write
\* of no byte passes and the rename of the temporary that is gone fails.
C38_EngineEmptyAfterLast ==
  /\ HasCommitted(eng.s) /\ eng.ret = ACCESS_VIOLATION
  /\ eng.s.block_num >= 2 /\ Len(rcvd.bytes) = HDRLEN
  /\ Exists(fs, eng.s.target)
-----------------------------------------------------------------------------
(* Two uploads to one target (SpecRace).                                   *)

\* The payloads of blocks 1..n that the sender of rcvd' has sent, rcvd'
\* being its block n.
RivalUploadedThrough ==
  RivalUpload(rcvd'.address,
              (ntohs(rcvd'.bytes, 2) - 1) * DATALEN + Len(rcvd'.bytes) - HDRLEN)
\* The bytes of a file that are not the zero bytes which follow each
\* datagram in the read buffer.
NotZero(b) == b # 0
WithoutZeros(content) == SelectSeq(content, NotZero)

\* Handling a datagram for session i changes no file but the temporary of i
\* and its target: the temporary of every other session is as it was.
OwnTemporaryOnly(i) ==
  LET s == sessions[i]
  IN rcvd'.address = s.key /\ rcvd'.socket = s.socket =>
       \A p \in (DOMAIN fs \cup DOMAIN fs') \ {s.tmp, s.target} :
         FileAt(fs', p) = FileAt(fs, p)
\* While its stream is open an upload's temporary holds only bytes of its
\* own peer.
OwnBytesStaged ==
  \A i \in DOMAIN sessions :
    sessions[i].opc = WRQ /\ sessions[i].file.isopen =>
      /\ Exists(fs, sessions[i].tmp)
      /\ \E n \in 0..(MaxSent * DATALEN) :
           WithoutZeros(fs[sessions[i].tmp]) = RivalUpload(sessions[i].key, n)
DistinctTemporaries ==
  \A i, j \in DOMAIN sessions :
    i # j /\ sessions[i].opc = WRQ /\ sessions[j].opc = WRQ =>
      sessions[i].tmp # sessions[j].tmp

\* The target keeps its content in the step, or it is created empty by the
\* staging of a WRQ while no file is there, or the step is the commit of
\* one session and target holds what Holds says of the content.
TargetOfOne(Holds(_)) ==
  \/ FileAt(fs', path_g) = FileAt(fs, path_g)
  \/ /\ WriteRequested(path_g)
     /\ FileAt(fs, path_g) = <<>> /\ FileAt(fs', path_g) = <<<<>>>>
  \/ \E i \in DOMAIN sessions :
       /\ Committed(sessions[i], path_g)
       /\ Holds(fs'[path_g])
IsRivalUpload(content) == content = RivalUploadedThrough
IsRivalUploadWithZeros(content) == WithoutZeros(content) = RivalUploadedThrough

\* C39: two WRQ sessions upload to the same target with their datagrams
\* interleaved in any order: each session writes only to its own temporary,
\* and target changes only at the commit of one session, after which it
\* holds the complete payload sequence of that session, never a mixture of
\* the two uploads and never a proper prefix of one.
C39_OneUploadAtTarget ==
  [][(\A i \in DOMAIN sessions : OwnTemporaryOnly(i)) /\ TargetOfOne(IsRivalUpload)]_vars
\* What holds of the two uploads: the temporaries are distinct, each step
\* writes only the temporary of the session it is routed to, a temporary
\* holds the payloads of its own peer in order (each followed by the bytes
\* that server::data takes from beyond its payload), and a commit leaves at
\* target the whole staging file of one session.
C39_OneStagingAtTarget ==
  /\ [](OwnBytesStaged /\ DistinctTemporaries)
  /\ [][/\ \A i \in DOMAIN sessions : OwnTemporaryOnly(i)
        /\ TargetOfOne(IsRivalUploadWithZeros)]_vars
\* Both uploads have staged bytes and neither has committed.
C39_BothStaging ==
  \E i, j \in DOMAIN sessions :
    /\ sessions[i].key = 1 /\ sessions[j].key = 2
    /\ sessions[i].opc = WRQ /\ sessions[j].opc = WRQ
    /\ sessions[i].file.isopen /\ sessions[j].file.isopen
    /\ sessions[i].block_num >= 1 /\ sessions[j].block_num >= 1
    /\ sessions[i].target = path_g /\ sessions[j].target = path_g
\* Both uploads have committed, the second over the first: target holds the
\* bytes of the one whose last DATA was just handled.
C39_SecondOverFirst ==
  \E i, j \in DOMAIN sessions :
    /\ sessions[i].key = 1 /\ sessions[j].key = 2
    /\ HasCommitted(sessions[i]) /\ HasCommitted(sessions[j])
    /\ sessions[i].block_num >= 2 /\ sessions[j].block_num >= 2
    /\ rcvd.address = 2 /\ IsData(rcvd.bytes)
    /\ ntohs(rcvd.bytes, 2) = sessions[j].block_num
    /\ Exists(fs, path_g)
    /\ WithoutZeros(fs[path_g]) = RivalUpload(2, Len(WithoutZeros(fs[path_g])))
    /\ Len(WithoutZeros(fs[path_g])) > DATALEN
-----------------------------------------------------------------------------
(* Sessions whose peer makes no progress (SpecStall).                      *)

\* The datagram of the step is handled for session s and is not the one
\* that moves its transfer on: an ACK of another block for a download, a
\* DATA that is not the next block for an upload, or a request.
NoProgressFor(s) ==
  /\ rcvd'.address = s.key /\ rcvd'.socket = s.socket
  /\ Len(rcvd'.bytes) >= HDRLEN
  /\ \/ s.opc = RRQ /\ IsAck(rcvd'.bytes) /\ DataBlock # s.block_num
     \/ s.opc = WRQ /\ IsData(rcvd'.bytes) /\ DataBlock # NextOf(s)
     \/ ntohs(rcvd'.bytes, 0) \in {RRQ, WRQ}
\* Such a datagram leaves the session, if it stays, with the timer it had:
\* same deadline, same retry count.
TimerKept(i) ==
  LET s == sessions[i]
  IN NoProgressFor(s) /\ i \in DOMAIN sessions' =>
       /\ sessions'[i].timer = s.timer
       /\ s.timer \in DOMAIN timers'
       /\ timers'[s.timer] = timers[s.timer]
       /\ sessions'[i].block_num = s.block_num
\* An expiry removes the session of the timer, or it counts one more retry
\* on that timer and touches no other.
RetriesCounted ==
  rcvd' = NoDatagram =>
    \/ \E i \in DOMAIN sessions : i \notin DOMAIN sessions'
    \/ \E id \in DOMAIN timers : timers' = [timers EXCEPT ![id].retries = @ + 1]
Removed(i) == (i \in DOMAIN sessions) ~> (i \notin DOMAIN sessions)

\* C40: with timers that expire when due, every session whose peer stops
\* making progress is eventually removed from the table, whatever else the
\* peer sends: ACKs of other blocks, DATA already taken and requests sent
\* again leave the session's timer and its retry count as they were.
C40_StalledRemoved ==
  /\ \A i \in 0..(StallSessions - 1) : Removed(i)
  /\ [][(\A i \in DOMAIN sessions : TimerKept(i)) /\ RetriesCounted]_vars
\* A download that has sent its DATA again has just been handed the ACK of
\* the block before and keeps its timer with the retries counted so far.
C40_Witness ==
  \E i \in DOMAIN sessions :
    /\ sessions[i].opc = RRQ /\ sessions[i].block_num = 1
    /\ sessions[i].timer \in DOMAIN timers
    /\ timers[sessions[i].timer].retries >= 2
    /\ rcvd.address = sessions[i].key /\ rcvd.socket = sessions[i].socket
    /\ rcvd.bytes = AckMsg(0)
\* An upload that waits for its first DATA has just acknowledged block 0
\* again while a download is waiting with retries counted.
C40_BothStalled ==
  \E i, j \in DOMAIN sessions :
    /\ sessions[i].opc = WRQ /\ sessions[i].block_num = 0 /\ sessions[i].file.isopen
    /\ sessions[j].opc = RRQ /\ timers[sessions[j].timer].retries >= 1
    /\ rcvd.socket = sessions[i].socket /\ rcvd.bytes = DataMsg(0, UploadChunk(0))
    /\ Len(sent[rcvd.socket]) >= 2
====
